---- MODULE Spec2Model ----
(***************************************************************************)
(* Divergloss glossary processor (dgproc): the diversity set (dg/dset.py), *)
(* the construction of the typed node tree with its embedded-selector      *)
(* resolver and post-DTD validation (dg/construct.py), and the driver      *)
(* (dgproc.py).                                                            *)
(*                                                                         *)
(* Strings are sequences of one-character strings, so keys (ids, language  *)
(* and environment keys) are such sequences too.  Python's None is the     *)
(* one-element sequence <<"None">>, which no string equals because its     *)
(* element is not a single character.  G-nodes live in an arena: a         *)
(* sequence of records [type, parent, line, att] addressed by index, the   *)
(* parent being an index (0 for None) and att the node's __dict__ (without *)
(* parent, src_line and src_file).  The glossary root is arena[1].         *)
(***************************************************************************)
EXTENDS Integers, Sequences, FiniteSets, TLC

VARIABLES
    pc,        \* position of the run: [at, k, i], k and i loop counters
    doc,       \* the parsed XML tree handed to from_file (an element record)
    validate,  \* options.check, the validate argument of from_file
    arena,     \* the g-nodes built so far
    warns,     \* warnings printed so far, in order
    out,       \* the message of the fatal error, or NoError
    result     \* value returned by the last d-set call / resolver call

vars == <<pc, doc, validate, arena, warns, out, result>>

\* ------------------------------------------------------------------------
\* Basic values.

None == <<"None">>

At(a) == [at |-> a, k |-> 0, i |-> 0]

EmptyDict == [x \in {} |-> {}]

NoError == [kind |-> "none"]

NoResult == [err |-> "nocall", val |-> <<>>]

Ok(v) == [err |-> "none", val |-> v]

Raise(e) == [err |-> e, val |-> <<>>]

Range(s) == {s[i] : i \in DOMAIN s}

\* Keys used by the bounded inputs.
envA == <<"A">>

envB == <<"B">>

envC == <<"C">>

langL1 == <<"l", "1">>

langL2 == <<"l", "2">>

\* ------------------------------------------------------------------------
\* Dset (dg/dset.py).  A d-set is [parent |-> index of the owner,
\* data |-> lang -> (env -> sequence of node indices)]; its gloss is arena[1].

NewDset(parent) == [parent |-> parent, data |-> EmptyDict]

RECURSIVE parent_att(_, _, _, _)
parent_att(ar, p, att, defval) ==
    IF p = 0 THEN defval
    ELSE IF att \in DOMAIN ar[p].att THEN ar[p].att[att]
    ELSE parent_att(ar, ar[p].parent, att, defval)

RECURSIVE AddToBuckets(_, _, _)
AddToBuckets(buckets, envs, o) ==
    IF envs = <<>> THEN buckets
    ELSE LET env == Head(envs)
             b1 == IF env \in DOMAIN buckets THEN buckets
                   ELSE (env :> <<>>) @@ buckets
         IN AddToBuckets([b1 EXCEPT ![env] = Append(@, o)], Tail(envs), o)

AddLang(ar, dst, obj) ==
    IF obj.att.lang = None THEN parent_att(ar, dst.parent, "lang", None)
    ELSE obj.att.lang

AddEnvs(ar, dst, obj) ==
    IF obj.att.env = <<>> THEN parent_att(ar, dst.parent, "env", <<None>>)
    ELSE obj.att.env

Dset_add(ar, dst, o) ==
    LET lang == AddLang(ar, dst, ar[o])
        envs == AddEnvs(ar, dst, ar[o])
        d1 == IF lang \in DOMAIN dst.data THEN dst.data
              ELSE (lang :> EmptyDict) @@ dst.data
    IN [dst EXCEPT !.data = [d1 EXCEPT ![lang] = AddToBuckets(@, envs, o)]]

\* Mutation of FirstClose: the closeness list is not consulted.
FirstClose_NoFallback(closeto, buckets, env) == env

\* Mutation of FirstClose: the last close environment with a bucket wins.
FirstClose_Last(closeto, buckets, env) ==
    LET hits == {i \in DOMAIN closeto : closeto[i] \in DOMAIN buckets}
    IN IF hits = {} THEN env
       ELSE closeto[CHOOSE i \in hits : \A j \in hits : j <= i]

RECURSIVE FirstClose(_, _, _)
FirstClose(closeto, buckets, env) ==
    IF closeto = <<>> THEN env
    ELSE IF Head(closeto) \in DOMAIN buckets THEN Head(closeto)
    ELSE FirstClose(Tail(closeto), buckets, env)

Dset_call(ar, dst, lang0, env0) ==
    LET lang == IF lang0 = None THEN parent_att(ar, dst.parent, "lang", None)
                ELSE lang0
        penv == parent_att(ar, dst.parent, "env", <<None>>)
        environments == ar[1].att.environments
    IN IF env0 = None /\ penv = <<>> THEN Raise("IndexError")
       ELSE LET env == IF env0 = None THEN penv[1] ELSE env0
            IN IF lang \notin DOMAIN dst.data THEN Ok(<<>>)
               ELSE LET buckets == dst.data[lang]
                    IN IF env \notin DOMAIN buckets /\ DOMAIN environments # {}
                       THEN IF env \notin DOMAIN environments
                            THEN Raise("KeyError")
                            ELSE LET cl == ar[environments[env]].att.closeto
                                     e2 == FirstClose(cl, buckets, env)
                                 IN IF e2 \notin DOMAIN buckets THEN Ok(<<>>)
                                    ELSE Ok(buckets[e2])
                       ELSE IF env \notin DOMAIN buckets THEN Ok(<<>>)
                            ELSE Ok(buckets[env])

\* Mutation of Dset_call_data: a language without content is entered into
\* the index by the call.
Dset_call_data_Setdefault(ar, dst, lang0, env0) ==
    LET lang == IF lang0 = None THEN parent_att(ar, dst.parent, "lang", None)
                ELSE lang0
    IN IF lang \in DOMAIN dst.data THEN dst
       ELSE [dst EXCEPT !.data = (lang :> EmptyDict) @@ @]

\* The d-set as __call__ leaves it: the method only tests keys with `in`
\* and subscripts keys it has found present, and assigns to nothing.
Dset_call_data(ar, dst, lang0, env0) == dst

\* Dset.langs()
Dset_langs(dst) == DOMAIN dst.data

\* Mutation of EnvsClose: every declared environment is taken for close.
RECURSIVE EnvsClose_All(_, _, _, _)
EnvsClose_All(ar, env, decl, envs) ==
    IF decl = <<>> THEN envs
    ELSE EnvsClose_All(ar, env, Tail(decl),
                       IF Head(decl) \notin Range(envs)
                       THEN Append(envs, Head(decl)) ELSE envs)

\* The inner loop of Dset.envs for bucket key env: the declared environments
\* decl, in their order, that list env in closeto and are not yet in envs.
RECURSIVE EnvsClose(_, _, _, _)
EnvsClose(ar, env, decl, envs) ==
    IF decl = <<>> THEN envs
    ELSE EnvsClose(ar, env, Tail(decl),
                   IF env \in Range(ar[ar[1].att.environments[Head(decl)]].att.closeto)
                      /\ Head(decl) \notin Range(envs)
                   THEN Append(envs, Head(decl)) ELSE envs)

\* Mutation of EnvsLoop: the bucket keys alone are collected.
EnvsLoop_KeysOnly(ar, keys, decl, envs) == envs \o keys

\* The outer loop of Dset.envs over the bucket keys in the order keys.
RECURSIVE EnvsLoop(_, _, _, _)
EnvsLoop(ar, keys, decl, envs) ==
    IF keys = <<>> THEN envs
    ELSE EnvsLoop(ar, Tail(keys), decl,
                  EnvsClose(ar, Head(keys), decl,
                            IF Head(keys) \notin Range(envs)
                            THEN Append(envs, Head(keys)) ELSE envs))

\* The orders in which a dictionary's keys may come.
RECURSIVE KeyOrders(_)
KeyOrders(S) ==
    IF S = {} THEN {<<>>}
    ELSE UNION {{<<x>> \o t : t \in KeyOrders(S \ {x})} : x \in S}

\* Dset.envs(lang): the set of outcomes, one per iteration order of the two
\* dictionaries; None for a language that is not in the index.
Dset_envs(ar, dst, lang0) ==
    LET lang == IF lang0 = None THEN parent_att(ar, dst.parent, "lang", None)
                ELSE lang0
    IN IF lang \notin DOMAIN dst.data THEN {Ok(None)}
       ELSE {Ok(EnvsLoop(ar, keys, decl, <<>>)) :
                keys \in KeyOrders(DOMAIN dst.data[lang]),
                decl \in KeyOrders(DOMAIN ar[1].att.environments)}

\* Dset.rename_lang(olang, nlang): _data[nlang] = _data.pop(olang)
Dset_rename_lang(dst, olang, nlang) ==
    IF olang \notin DOMAIN dst.data THEN dst
    ELSE [dst EXCEPT !.data =
             [l \in (DOMAIN dst.data \ {olang}) \cup {nlang} |->
                 IF l = nlang THEN dst.data[olang] ELSE dst.data[l]]]

\* Dset.rename_env(oenv, nenv): in every language that has a bucket for
\* oenv, envs[nenv] = envs.pop(oenv)
Dset_rename_env(dst, oenv, nenv) ==
    [dst EXCEPT !.data =
        [l \in DOMAIN dst.data |->
            IF oenv \notin DOMAIN dst.data[l] THEN dst.data[l]
            ELSE [e \in (DOMAIN dst.data[l] \ {oenv}) \cup {nenv} |->
                     IF e = nenv THEN dst.data[l][oenv] ELSE dst.data[l][e]]]]

\* ------------------------------------------------------------------------
\* Python string operations, on sequences of characters with 0-based
\* positions as in the source.

\* seg[a:b] for 0 <= a
Slice(s, a, b) ==
    LET hi == IF b > Len(s) THEN Len(s) ELSE b
    IN IF a >= hi THEN <<>> ELSE [i \in 1..(hi - a) |-> s[a + i]]

\* seg.find(ch, start): the 0-based position of the first ch at or after
\* start, or -1
Find(s, ch, start) ==
    LET hits == {i \in (start + 1)..Len(s) : s[i] = ch}
    IN IF hits = {} THEN -1
       ELSE (CHOOSE i \in hits : \A j \in hits : i <= j) - 1

\* s.split(ch): the pieces between the occurrences of ch, empty ones kept
RECURSIVE Split(_, _)
Split(s, ch) ==
    LET p == Find(s, ch, 0)
    IN IF p < 0 THEN <<s>>
       ELSE <<Slice(s, 0, p)>> \o Split(Slice(s, p + 1, Len(s)), ch)

\* s.split(): the whitespace-separated words
RECURSIVE SplitWs(_)
SplitWs(s) ==
    IF s = <<>> THEN <<>>
    ELSE IF Head(s) = " " THEN SplitWs(Tail(s))
    ELSE LET p == Find(s, " ", 0)
         IN IF p < 0 THEN <<s>>
            ELSE <<Slice(s, 0, p)>> \o SplitWs(Slice(s, p + 1, Len(s)))

\* s.replace("~~", "~"): left to right, occurrences not overlapping
RECURSIVE Unescape(_)
Unescape(s) ==
    IF Len(s) < 2 THEN s
    ELSE IF s[1] = "~" /\ s[2] = "~" THEN <<"~">> \o Unescape(Slice(s, 2, Len(s)))
    ELSE <<s[1]>> \o Unescape(Tail(s))

\* s.strip()
RECURSIVE Strip(_)
Strip(s) ==
    IF s = <<>> THEN s
    ELSE IF Head(s) = " " THEN Strip(Tail(s))
    ELSE IF s[Len(s)] = " " THEN Strip(SubSeq(s, 1, Len(s) - 1))
    ELSE s

\* ------------------------------------------------------------------------
\* Text (dg/construct.py).  A Text is [k |-> "text", tag, line, att, segs]:
\* tag names the subclass ("text" for Text itself), att holds c, lang, wl or
\* url, and segs is the list content.  A segment is a Text, a plain string
\* [k |-> "str", s], or, between normalisation and rebuilding, the env/string
\* dictionary of one embedded selector [k |-> "sel", map, unparsed].

Str(s) == [k |-> "str", s |-> s]

Sel(map, seg) == [k |-> "sel", map |-> map, unparsed |-> seg]

\* A character outside ASCII: the letter s with caron (U+0161), written as
\* a token of its own.
sh == "sh"

\* str(x) of a key: None gives "None", a byte string or an ASCII-only
\* unicode string itself; a unicode string with a character outside ASCII
\* raises UnicodeEncodeError (the default encoding is ascii).
StrRaises(x) == x # None /\ sh \in Range(x)

\* One alternative of a selector: [:pc] are its environments, or the default
\* ones; a repeated environment is warned about, the message joining str(x)
\* of the repeated keys, and overwritten.
ParseAlt(st, eseg, seg, denvs) ==
    LET pcol == Find(eseg, ":", 0)
        cenvs == IF pcol >= 0 THEN SplitWs(Slice(eseg, 0, pcol)) ELSE denvs
        cseg == IF pcol >= 0 THEN Slice(eseg, pcol + 1, Len(eseg)) ELSE eseg
        repenvs == st.locenvs \cap Range(cenvs)
    IN IF \E x \in repenvs : StrRaises(x)
       THEN [st EXCEPT !.err = "UnicodeEncodeError"]
       ELSE [envsegs |-> [e \in DOMAIN st.envsegs \cup Range(cenvs) |->
                             IF e \in Range(cenvs) THEN cseg ELSE st.envsegs[e]],
             locenvs |-> st.locenvs \cup Range(cenvs),
             warns |-> IF repenvs # {}
                       THEN Append(st.warns, [kind |-> "repeats", esel |-> seg,
                                              eseg |-> eseg, envs |-> repenvs])
                       ELSE st.warns,
             err |-> "none"]

RECURSIVE ParseAlts(_, _, _, _)
ParseAlts(st, esegs, seg, denvs) ==
    IF esegs = <<>> \/ st.err # "none" THEN st
    ELSE ParseAlts(ParseAlt(st, Head(esegs), seg, denvs), Tail(esegs), seg, denvs)

\* Mutation of Unterminated: the text from the opening tilde on is dropped.
Unterminated_DropsSpan(seg, p1, nt1, acc) ==
    [ntext |-> nt1,
     envs |-> acc.envs,
     warns |-> Append(acc.warns, [kind |-> "unterminated", esel |-> seg]),
     err |-> acc.err]

\* _res_embsel_parse_one, no closing tilde after p1: warn, p2 = p1 - 1 and
\* break, so that the tail appended after the loop is seg[p1:], never empty.
Unterminated(seg, p1, nt1, acc) ==
    [ntext |-> Append(nt1, Str(Slice(seg, p1, Len(seg)))),
     envs |-> acc.envs,
     warns |-> Append(acc.warns, [kind |-> "unterminated", esel |-> seg]),
     err |-> acc.err]

\* The while loop of _res_embsel_parse_one, entered with p1 and p2.
RECURSIVE ParseLoop(_, _, _, _, _)
ParseLoop(seg, denvs, p1, p2, acc) ==
    IF p1 < 0
    THEN LET tail == Slice(seg, p2 + 1, Len(seg))
         IN [acc EXCEPT !.ntext = IF tail # <<>> THEN Append(@, Str(tail)) ELSE @]
    ELSE LET head == Slice(seg, p2 + 1, p1)
             nt1 == IF head # <<>> THEN Append(acc.ntext, Str(head)) ELSE acc.ntext
             q2 == Find(seg, "~", p1 + 1)
         IN IF q2 < 0
            THEN Unterminated(seg, p1, nt1, acc)
            ELSE LET r == ParseAlts([envsegs |-> EmptyDict, locenvs |-> {},
                                     warns |-> acc.warns, err |-> "none"],
                                    Split(Slice(seg, p1 + 1, q2), "|"), seg, denvs)
                 IN IF r.err # "none"
                    THEN [acc EXCEPT !.warns = r.warns, !.err = r.err]
                    ELSE ParseLoop(seg, denvs, Find(seg, "~", q2 + 1), q2,
                                   [ntext |-> Append(nt1, Sel(r.envsegs, seg)),
                                    envs |-> acc.envs \cup r.locenvs,
                                    warns |-> r.warns, err |-> "none"])

res_embsel_parse_one(seg, denvs, warns0) ==
    ParseLoop(seg, denvs, Find(seg, "~", 0), -1,
              [ntext |-> <<>>, envs |-> {}, warns |-> warns0, err |-> "none"])

\* _res_embsel_norm_text: ntext is the normalised copy, envs the environments
\* met, text the argument as the function leaves it (segments holding a tilde
\* are unescaped in place).  r is what the loop over the segments gathered.
NormText(text, r) ==
    [ntext |-> [text EXCEPT !.segs = r.nsegs],
     envs |-> r.envs,
     text |-> [text EXCEPT !.segs = r.segs],
     warns |-> r.warns,
     err |-> r.err]

\* The loop body for a sub-text, sub being its own normalisation.
NormSub(acc, sub) ==
    [nsegs |-> Append(acc.nsegs, sub.ntext),
     envs |-> acc.envs \cup sub.envs,
     segs |-> Append(acc.segs, sub.text),
     warns |-> sub.warns,
     err |-> sub.err]

\* The loop body for a string holding a tilde, loc being its parse.
NormStr(acc, seg, loc) ==
    [nsegs |-> acc.nsegs \o loc.ntext,
     envs |-> acc.envs \cup loc.envs,
     segs |-> Append(acc.segs, Str(Unescape(seg.s))),
     warns |-> loc.warns,
     err |-> loc.err]

RECURSIVE NormSegs(_, _, _)
res_embsel_norm_text(text, denvs, warns0) ==
    NormText(text, NormSegs(text.segs, denvs,
                            [nsegs |-> <<>>, envs |-> {}, segs |-> <<>>,
                             warns |-> warns0, err |-> "none"]))

NormSegs(segs, denvs, acc) ==
    IF segs = <<>> \/ acc.err # "none" THEN acc
    ELSE NormSegs(Tail(segs), denvs,
                  IF Head(segs).k = "text"
                  THEN NormSub(acc, res_embsel_norm_text(Head(segs), denvs, acc.warns))
                  ELSE IF "~" \in Range(Head(segs).s)
                  THEN NormStr(acc, Head(segs),
                               res_embsel_parse_one(Head(segs).s, denvs, acc.warns))
                  ELSE [acc EXCEPT !.nsegs = Append(@, Head(segs)),
                                   !.segs = Append(@, Head(segs))])

\* Mutation of CloseMatch: the last environment of the closeto list that the
\* selector has an entry for.
CloseMatch_Last(closeto, map) ==
    LET hits == {i \in DOMAIN closeto : closeto[i] \in DOMAIN map}
    IN IF hits = {} THEN <<>>
       ELSE <<closeto[CHOOSE i \in hits : \A j \in hits : j <= i]>>

\* The first environment of a closeto list that the selector has an entry for.
RECURSIVE CloseMatch(_, _)
CloseMatch(closeto, map) ==
    IF closeto = <<>> THEN <<>>
    ELSE IF Head(closeto) \in DOMAIN map THEN <<Head(closeto)>>
    ELSE CloseMatch(Tail(closeto), map)

\* The text chosen for one selector spot: the set of outcomes
\* [s, warned, err], several when random.choice decides.
BestSpot(ar, seg, env) ==
    IF env \in DOMAIN seg.map
    THEN {[s |-> seg.map[env], warned |-> FALSE, err |-> "none"]}
    ELSE IF "environments" \notin DOMAIN ar[1].att
    THEN {[s |-> <<>>, warned |-> FALSE, err |-> "AttributeError"]}
    ELSE LET environments == ar[1].att.environments
             close == IF env \in DOMAIN environments
                      THEN CloseMatch(ar[environments[env]].att.closeto, seg.map)
                      ELSE <<>>
             warned == env \notin Range(ar[1].att.env)
         IN IF close # <<>>
            THEN {[s |-> seg.map[close[1]], warned |-> FALSE, err |-> "none"]}
            ELSE IF DOMAIN seg.map = {}
            THEN {[s |-> <<>>, warned |-> warned, err |-> "IndexError"]}
            ELSE {[s |-> seg.map[e], warned |-> warned, err |-> "none"] :
                     e \in DOMAIN seg.map}

\* _res_embsel_best_text: the set of outcomes [text, warns, err].
RECURSIVE BestSegs(_, _, _, _)
res_embsel_best_text(ar, ntext, env, warns0) ==
    {[text |-> [ntext EXCEPT !.segs = r.segs], warns |-> r.warns, err |-> r.err] :
        r \in BestSegs(ar, ntext.segs, env,
                       [segs |-> <<>>, warns |-> warns0, err |-> "none"])}

BestSegs(ar, segs, env, acc) ==
    IF segs = <<>> \/ acc.err # "none" THEN {acc}
    ELSE LET seg == Head(segs)
         IN IF seg.k = "text"
            THEN UNION {BestSegs(ar, Tail(segs), env,
                                 [segs |-> Append(acc.segs, sub.text),
                                  warns |-> sub.warns, err |-> sub.err]) :
                           sub \in res_embsel_best_text(ar, seg, env, acc.warns)}
            ELSE IF seg.k = "sel"
            THEN UNION {BestSegs(ar, Tail(segs), env,
                                 [segs |-> IF c.err = "none"
                                           THEN Append(acc.segs, Str(c.s))
                                           ELSE acc.segs,
                                  warns |-> IF c.warned
                                            THEN Append(acc.warns,
                                                   [kind |-> "noresolution",
                                                    esel |-> seg.unparsed,
                                                    env |-> env])
                                            ELSE acc.warns,
                                  err |-> c.err]) :
                           c \in BestSpot(ar, seg, env)}
            ELSE BestSegs(ar, Tail(segs), env, [acc EXCEPT !.segs = Append(@, seg)])

\* The orders in which a set may be iterated.
RECURSIVE Orders(_)
Orders(S) ==
    IF S = {} THEN {<<>>}
    ELSE UNION {{<<x>> \o t : t \in Orders(S \ {x})} : x \in S}

\* The loop of _res_embsel over the environments: each copy is a new node.
RECURSIVE EmbselCopies(_, _, _, _, _)
\* Mutation of EmbselCopies: the copy keeps the parent None that the
\* original was given for the deep copy.
EmbselCopies_ParentNone(cs, obj, parent, ntext, envs) ==
    IF envs = <<>> \/ cs.err # "none" THEN {cs}
    ELSE UNION {EmbselCopies(
                    IF b.err # "none"
                    THEN [cs EXCEPT !.warns = b.warns, !.err = b.err]
                    ELSE [cs EXCEPT
                            !.ar = Append(@, [obj EXCEPT
                                                !.parent = 0,
                                                !.att.env = <<Head(envs)>>,
                                                !.att.text = b.text]),
                            !.warns = b.warns,
                            !.ixs = Append(@, Len(cs.ar) + 1)],
                    obj, parent, ntext, Tail(envs)) :
                  b \in res_embsel_best_text(cs.ar, ntext, Head(envs), cs.warns)}

EmbselCopies(cs, obj, parent, ntext, envs) ==
    IF envs = <<>> \/ cs.err # "none" THEN {cs}
    ELSE UNION {EmbselCopies(
                    IF b.err # "none"
                    THEN [cs EXCEPT !.warns = b.warns, !.err = b.err]
                    ELSE [cs EXCEPT
                            !.ar = Append(@, [obj EXCEPT
                                                !.parent = parent,
                                                !.att.env = <<Head(envs)>>,
                                                !.att.text = b.text]),
                            !.warns = b.warns,
                            !.ixs = Append(@, Len(cs.ar) + 1)],
                    obj, parent, ntext, Tail(envs)) :
                  b \in res_embsel_best_text(cs.ar, ntext, Head(envs), cs.warns)}

\* _res_embsel once the text is normalised to n: the argument text has been
\* unescaped in place; without environments the node itself is returned,
\* otherwise it is left with parent None and copied once per environment.
EmbselExpand(cs, o, n) ==
    LET ar0 == [cs.ar EXCEPT ![o].att.text = n.text]
        ar1 == [cs.ar EXCEPT ![o].att.text = n.text, ![o].parent = 0]
    IN IF n.err # "none"
       THEN {[cs EXCEPT !.warns = n.warns, !.err = n.err, !.ixs = <<>>]}
       ELSE IF n.envs = {}
       THEN {[cs EXCEPT !.ar = ar0, !.warns = n.warns, !.ixs = <<o>>]}
       ELSE UNION {EmbselCopies(
                       [cs EXCEPT !.ar = ar1, !.warns = n.warns, !.ixs = <<>>],
                       ar1[o], cs.ar[o].parent, n.ntext, order) :
                     order \in Orders(n.envs)}

\* _res_embsel(gloss, obj) for obj = cs.ar[o]: the set of outcomes, each the
\* state cs with the copies added and ixs the list returned.
res_embsel(cs, o) ==
    IF ~({"text", "env"} \subseteq DOMAIN cs.ar[o].att)
    THEN {[cs EXCEPT !.ixs = <<o>>]}
    ELSE EmbselExpand(cs, o,
                      res_embsel_norm_text(cs.ar[o].att.text, cs.ar[o].att.env,
                                           cs.warns))

\* ------------------------------------------------------------------------
\* The XML tree.  An element is [k |-> "el", tag, line, attrib, content]:
\* attrib maps the names of the attributes present to their string values and
\* content lists, in document order, the child elements and the non-empty
\* runs of character data [k |-> "str", s].  NoneEl stands for node = None.

NoneEl == [k |-> "none"]

\* _attval
attval(node, attname, defval) ==
    IF node = NoneEl THEN defval
    ELSE IF attname \in DOMAIN node.attrib THEN node.attrib[attname]
    ELSE defval

\* _attkey
attkey(node, attname) ==
    LET key == attval(node, attname, None)
    IN IF key # None THEN Strip(key) ELSE key

\* _child_els_by_tag
child_els_by_tag(node, tags, defnodes) ==
    IF node = NoneEl THEN defnodes
    ELSE LET selnodes == SelectSeq(node.content,
                                   LAMBDA x : x.k = "el" /\ x.tag \in tags)
         IN IF selnodes = <<>> THEN defnodes ELSE selnodes

\* _pure_text
RECURSIVE pure_text(_)
RECURSIVE PureItems(_)
pure_text(node) == IF node = NoneEl THEN <<>> ELSE PureItems(node.content)

PureItems(items) ==
    IF items = <<>> THEN <<>>
    ELSE (IF Head(items).k = "str" THEN Head(items).s ELSE pure_text(Head(items)))
         \o PureItems(Tail(items))

\* The tags a text segment type expects inside itself (Text.__init__ and
\* the subclasses Para, Ref, Em, Ol, Link).
ExpTags(tag) ==
    CASE tag = "text" -> {"para", "ref", "em", "ol", "link"}
      [] tag = "para" -> {"ref", "em", "ol", "link"}
      [] tag = "ref" -> {"em", "ol"}
      [] tag = "em" -> {"ref", "em", "ol", "link"}
      [] tag = "ol" -> {"ref", "em", "ol"}
      [] tag = "link" -> {"em", "ol"}

\* The attributes the subclasses read with _attkey.
TextAtt(tag, node) ==
    CASE tag = "ref" -> [c |-> attkey(node, "c")]
      [] tag = "ol" -> [lang |-> attkey(node, "lang"), wl |-> attkey(node, "wl")]
      [] tag = "link" -> [url |-> attkey(node, "url")]
      [] OTHER -> EmptyDict

\* Text(node) and _text_segments
RECURSIVE MakeText(_, _)
RECURSIVE text_segments(_, _)
MakeText(node, tag) ==
    [k |-> "text", tag |-> tag,
     line |-> IF node = NoneEl THEN 0 ELSE node.line,
     att |-> TextAtt(tag, node),
     segs |-> IF node = NoneEl THEN <<>>
              ELSE text_segments(node.content, ExpTags(tag))]

text_segments(items, exp_tags) ==
    IF items = <<>> THEN <<>>
    ELSE LET x == Head(items)
             seg == IF x.k = "str" THEN Str(x.s)
                    ELSE IF x.tag \in exp_tags THEN MakeText(x, x.tag)
                    ELSE Str(pure_text(x))
         IN <<seg>> \o text_segments(Tail(items), exp_tags)

\* ------------------------------------------------------------------------
\* The g-node types: what each __init__ hands to _content.  A default is
\* "None", "lang" (gloss.lang), "empty" ([]), "env" (gloss.env) or "none1"
\* ([None]).

TextOnly == [atts |-> << <<"lang", "lang">> >>, lists |-> << <<"env", "env">> >>,
             dsets |-> <<>>, chlists |-> <<>>, children |-> <<>>, text |-> TRUE]

NameDsets == << <<"name", "Name", {"name"}>>,
                <<"shortname", "Shortname", {"shortname"}>> >>

DescDset == <<"desc", "Desc", {"desc", "ldesc"}>>

OriginDset == <<"origin", "Origin", {"origin", "lorigin"}>>

CommentDset == <<"comment", "Comment", {"comment", "lcomment"}>>

KeyDef == [atts |-> << <<"id", "None">> >>, lists |-> <<>>,
           dsets |-> Append(NameDsets, DescDset),
           chlists |-> <<>>, children |-> <<>>, text |-> FALSE]

TypeSpec(t) ==
    CASE t = "Language" -> [KeyDef EXCEPT !.dsets = NameDsets]
      [] t = "Environment" ->
            [KeyDef EXCEPT !.atts = << <<"id", "None">>, <<"weight", "None">>,
                                       <<"meta", "None">> >>,
                           !.lists = << <<"closeto", "empty">> >>]
      [] t = "Editor" ->
            [KeyDef EXCEPT !.dsets = NameDsets \o
                               << <<"affiliation", "Affiliation", {"affiliation"}>>,
                                  DescDset >>,
                           !.children = << <<"email", "Email", {"email"}>> >>]
      [] t = "Source" ->
            [KeyDef EXCEPT !.children = << <<"url", "Url", {"url"}>>,
                                           <<"email", "Email", {"email"}>> >>]
      [] t \in {"Topic", "Level", "Gramm"} -> KeyDef
      [] t = "Extroot" ->
            [KeyDef EXCEPT !.children =
                               << <<"rooturl", "RootUrl", {"rooturl"}>>,
                                  <<"browseurl", "BrowseUrl", {"browseurl"}>> >>]
      [] t = "Concept" ->
            [KeyDef EXCEPT !.lists = << <<"topic", "empty">>, <<"level", "empty">>,
                                        <<"related", "empty">> >>,
                           !.dsets = << DescDset,
                                        <<"term", "Term", {"term", "eterm"}>>,
                                        <<"details", "Details", {"details"}>>,
                                        <<"media", "Media", {"media"}>>,
                                        OriginDset, CommentDset >>]
      [] t = "Term" ->
            [atts |-> << <<"lang", "lang">>, <<"by", "None">>, <<"src", "None">>,
                         <<"gr", "None">> >>,
             lists |-> << <<"env", "env">> >>,
             dsets |-> <<OriginDset, CommentDset>>,
             chlists |-> << <<"decl", "Decl", {"decl"}>> >>,
             children |-> << <<"nom", "Nom", {"nom"}>>, <<"stem", "Stem", {"stem"}>> >>,
             text |-> FALSE]
      [] t = "Desc" ->
            [TextOnly EXCEPT !.atts = << <<"lang", "lang">>, <<"by", "None">>,
                                         <<"src", "None">> >>]
      [] t = "Origin" ->
            \* the list is ("lang", gloss.lang), "by" "src": two adjacent
            \* string literals, which Python joins into one name
            [TextOnly EXCEPT !.atts = << <<"lang", "lang">>, <<"bysrc", "None">> >>]
      [] t = "Comment" ->
            [TextOnly EXCEPT !.atts = << <<"lang", "lang">>, <<"by", "None">> >>]
      [] t \in {"Details", "Media"} ->
            [TextOnly EXCEPT !.atts = << <<"lang", "lang">>, <<"by", "None">>,
                                         <<"root", "None">>, <<"rel", "None">> >>]
      [] t = "Decl" ->
            [TextOnly EXCEPT !.atts = << <<"lang", "lang">>, <<"gr", "None">> >>]
      [] OTHER -> TextOnly

\* The default value a constructor passes, read from the glossary as built
\* so far.
DefVal(ar, kind) ==
    CASE kind = "None" -> None
      [] kind = "lang" -> ar[1].att.lang
      [] kind = "empty" -> <<>>
      [] kind = "env" -> ar[1].att.env
      [] kind = "none1" -> <<None>>

\* obj.__dict__[attname] = val
SetAtt(ar, ix, attname, val) ==
    [ar EXCEPT ![ix].att = (attname :> val) @@ @]

\* _attributes
RECURSIVE attributes(_, _, _, _)
attributes(ar, ix, node, attspecs) ==
    IF attspecs = <<>> THEN ar
    ELSE LET a == Head(attspecs)
         IN attributes(SetAtt(ar, ix, a[1], attval(node, a[1], DefVal(ar, a[2]))),
                       ix, node, Tail(attspecs))

\* _attrib_lists: a string value is split, a default list is taken as it is
RECURSIVE attrib_lists(_, _, _, _)
attrib_lists(ar, ix, node, attspecs) ==
    IF attspecs = <<>> THEN ar
    ELSE LET a == Head(attspecs)
             val == IF node # NoneEl /\ a[1] \in DOMAIN node.attrib
                    THEN SplitWs(node.attrib[a[1]])
                    ELSE DefVal(ar, a[2])
         IN attrib_lists(SetAtt(ar, ix, a[1], val), ix, node, Tail(attspecs))

\* ------------------------------------------------------------------------
\* Construction.  A construction state cs is [ar, warns, err, ixs, ix]: the
\* arena, the warnings printed, the exception raised ("none" when none), the
\* list last returned by _res_embsel and the index of the node last built.
\* Every constructor yields the set of states it may end in.

StartCs(ar, warns0) == [ar |-> ar, warns |-> warns0, err |-> "none",
                        ixs |-> <<>>, ix |-> 0]

RECURSIVE Build(_, _, _, _)
RECURSIVE DsetsOf(_, _, _, _)
RECURSIVE DsetChildren(_, _, _, _, _)
RECURSIVE ListChildren(_, _, _, _, _)
RECURSIVE ChildLists(_, _, _, _)
RECURSIVE Children(_, _, _, _)

\* dst.add(rsubobj) for each node _res_embsel returned
RECURSIVE AddAll(_, _, _, _)
AddAll(ar, ix, attname, ixs) ==
    IF ixs = <<>> THEN ar
    ELSE AddAll([ar EXCEPT ![ix].att[attname] = Dset_add(ar, @, Head(ixs))],
                ix, attname, Tail(ixs))

\* The loop of _child_dsets over the matching child elements.
DsetChildren(cs, ix, attname, subtype, cnodes) ==
    IF cnodes = <<>> \/ cs.err # "none" THEN {cs}
    ELSE UNION {
           UNION {DsetChildren(
                      IF r.err # "none" THEN r
                      ELSE [r EXCEPT !.ar = AddAll(r.ar, ix, attname, r.ixs)],
                      ix, attname, subtype, Tail(cnodes)) :
                    r \in IF b.err # "none" THEN {b} ELSE res_embsel(b, b.ix)} :
           b \in Build(cs, subtype, ix, Head(cnodes))}

\* _child_dsets
DsetsOf(cs, ix, node, chdspecs) ==
    IF chdspecs = <<>> \/ cs.err # "none" THEN {cs}
    ELSE LET c == Head(chdspecs)
             cs1 == IF c[1] \in DOMAIN cs.ar[ix].att THEN cs
                    ELSE [cs EXCEPT !.ar = SetAtt(@, ix, c[1], NewDset(ix))]
         IN UNION {DsetsOf(d, ix, node, Tail(chdspecs)) :
                     d \in DsetChildren(cs1, ix, c[1], c[2],
                                        child_els_by_tag(node, c[3], <<>>))}

\* The loop of _child_lists over the matching child elements.
ListChildren(cs, ix, attname, subtype, cnodes) ==
    IF cnodes = <<>> \/ cs.err # "none" THEN {cs}
    ELSE UNION {ListChildren(
                    IF b.err # "none" THEN b
                    ELSE [b EXCEPT !.ar[ix].att[attname] = Append(@, b.ix)],
                    ix, attname, subtype, Tail(cnodes)) :
                  b \in Build(cs, subtype, ix, Head(cnodes))}

\* _child_lists
ChildLists(cs, ix, node, chlspecs) ==
    IF chlspecs = <<>> \/ cs.err # "none" THEN {cs}
    ELSE LET c == Head(chlspecs)
             cs1 == IF c[1] \in DOMAIN cs.ar[ix].att THEN cs
                    ELSE [cs EXCEPT !.ar = SetAtt(@, ix, c[1], <<>>)]
         IN UNION {ChildLists(d, ix, node, Tail(chlspecs)) :
                     d \in ListChildren(cs1, ix, c[1], c[2],
                                        child_els_by_tag(node, c[3], <<>>))}

\* _children: the first matching child is built; None is stored only when
\* node is None, and nothing at all when node has no matching child.
\* A child g-node is stored as its index, None as 0.
Children(cs, ix, node, chspecs) ==
    IF chspecs = <<>> \/ cs.err # "none" THEN {cs}
    ELSE LET c == Head(chspecs)
             cnodes == child_els_by_tag(node, c[3], <<>>)
         IN IF node = NoneEl
            THEN Children([cs EXCEPT !.ar = SetAtt(@, ix, c[1], 0)],
                          ix, node, Tail(chspecs))
            ELSE IF cnodes = <<>> THEN Children(cs, ix, node, Tail(chspecs))
            ELSE UNION {Children(
                            IF b.err # "none" THEN b
                            ELSE [b EXCEPT !.ar = SetAtt(@, ix, c[1], b.ix)],
                            ix, node, Tail(chspecs)) :
                          b \in Build(cs, c[2], ix, Head(cnodes))}

\* Term.__init__ passes vnode, which is node only when it has a <nom> child.
ContentNode(t, node) ==
    IF t = "Term" /\ child_els_by_tag(node, {"nom"}, <<>>) = <<>> THEN NoneEl
    ELSE node

\* What __init__ does after _content: an environment appends None to its
\* closeto, a simple term builds its nom from the term element itself.
Finish(cs, t, ix, node) ==
    IF cs.err # "none" THEN {cs}
    ELSE IF t = "Environment"
    THEN {[cs EXCEPT !.ar[ix].att.closeto = Append(@, None)]}
    ELSE IF t = "Term" /\ ContentNode(t, node) = NoneEl
    THEN {IF b.err # "none" THEN b
          ELSE [b EXCEPT !.ar = SetAtt(@, ix, "nom", b.ix)] :
             b \in Build(cs, "Nom", ix, node)}
    ELSE {cs}

\* _text: the text types read their content into obj.text
TextOf(c, spec, ix, node) ==
    IF spec.text /\ c.err = "none"
    THEN [c EXCEPT !.ar = SetAtt(@, ix, "text", MakeText(node, "text"))]
    ELSE c

\* subtype(gloss, parent, node): Gnode.__init__ and the _content bundles of
\* the type, then the rest of its __init__.  ix of every result is the new
\* node.
Build(cs, t, parent, node) ==
    IF cs.err # "none" THEN {cs}
    ELSE LET spec == TypeSpec(t)
             ix == Len(cs.ar) + 1
             ar0 == Append(cs.ar,
                           [type |-> t, parent |-> parent,
                            line |-> IF node = NoneEl THEN 0 ELSE node.line,
                            att |-> EmptyDict])
             vnode == ContentNode(t, node)
         IN {[f EXCEPT !.ix = ix] :
               f \in UNION {Finish(TextOf(c5, spec, ix, node), t, ix, node) :
                  c5 \in UNION {Children(c4, ix, vnode, spec.children) :
                     c4 \in UNION {ChildLists(c3, ix, vnode, spec.chlists) :
                        c3 \in DsetsOf(
                                 [cs EXCEPT !.ar =
                                     attrib_lists(attributes(ar0, ix, node, spec.atts),
                                                  ix, node, spec.lists)],
                                 ix, vnode, spec.dsets)}}}}

\* The loop of _child_dicts over the matching child elements: dct[o.id] = o,
\* a later node replacing an earlier one of the same id.
RECURSIVE DictChildren(_, _, _, _)
DictChildren(cs, dictname, subtype, cnodes) ==
    IF cnodes = <<>> \/ cs.err # "none" THEN {cs}
    ELSE UNION {DictChildren(
                    IF b.err # "none" THEN b
                    ELSE [b EXCEPT !.ar[1].att[dictname] =
                                      (b.ar[b.ix].att.id :> b.ix) @@ @],
                    dictname, subtype, Tail(cnodes)) :
                  b \in Build(cs, subtype, 1, Head(cnodes))}

\* _child_dicts(gloss, gloss, node, [chmspec]) for each container node
RECURSIVE child_dicts(_, _, _)
child_dicts(cs, nodes, chmspec) ==
    IF nodes = <<>> \/ cs.err # "none" THEN {cs}
    ELSE LET node == Head(nodes)
             cs1 == IF chmspec[1] \in DOMAIN cs.ar[1].att THEN cs
                    ELSE [cs EXCEPT !.ar = SetAtt(@, 1, chmspec[1], EmptyDict)]
         IN UNION {child_dicts(d, Tail(nodes), chmspec) :
                     d \in DictChildren(cs1, chmspec[1], chmspec[2],
                                        child_els_by_tag(node, {chmspec[3]}, <<>>))}

\* The keyed collections of <keydefs>, in the order Glossary.__init__ builds
\* them: <<dictname, subtype, tagname>>.
KeydefSpecs ==
    << <<"languages", "Language", "language">>,
       <<"environments", "Environment", "environment">>,
       <<"editors", "Editor", "editor">>,
       <<"sources", "Source", "source">>,
       <<"topics", "Topic", "topic">>,
       <<"levels", "Level", "level">>,
       <<"grammar", "Gramm", "gramm">>,
       <<"extroots", "Extroot", "extroot">> >>

ConceptSpec == <<"concepts", "Concept", "concept">>

MetadataDsets == << <<"title", "Title", {"title"}>>, DescDset,
                    <<"version", "Version", {"version"}>> >>

MetadataChildren == << <<"date", "Date", {"date"}>> >>

\* The metadata loop of Glossary.__init__.
RECURSIVE metadata(_, _)
metadata(cs, md_nodes) ==
    IF md_nodes = <<>> \/ cs.err # "none" THEN {cs}
    ELSE UNION {UNION {metadata(c, Tail(md_nodes)) :
                         c \in Children(d, 1, Head(md_nodes), MetadataChildren)} :
                  d \in DsetsOf(cs, 1, Head(md_nodes), MetadataDsets)}

\* Gnode.__init__(self, None, node) and the attributes of the root.
GlossaryRoot(node) ==
    LET ar0 == <<[type |-> "Glossary", parent |-> 0, line |-> node.line,
                  att |-> EmptyDict]>>
        ar1 == attributes(ar0, 1, node, << <<"id", "None">>, <<"lang", "None">> >>)
    IN attrib_lists(ar1, 1, node, << <<"env", "none1">> >>)

\* The ids of the tree in document order: tree.xpath("//*/@id").
RECURSIVE IdsOf(_)
RECURSIVE IdsOfItems(_)
IdsOf(el) ==
    (IF "id" \in DOMAIN el.attrib THEN <<el.attrib.id>> ELSE <<>>)
    \o IdsOfItems(el.content)

IdsOfItems(items) ==
    IF items = <<>> THEN <<>>
    ELSE (IF Head(items).k = "el" THEN IdsOf(Head(items)) ELSE <<>>)
         \o IdsOfItems(Tail(items))

\* Mutation of DupPositions: only an id equal to its predecessor is seen.
DupPositions_Adjacent(ids) == {j \in DOMAIN ids : j > 1 /\ ids[j - 1] = ids[j]}

\* The positions at which the scan of from_file finds the id already seen.
DupPositions(ids) == {j \in DOMAIN ids : \E i \in 1..(j - 1) : ids[i] = ids[j]}

\* ------------------------------------------------------------------------
\* Post-DTD validation.

\* _post_dtd_ch_key
ch_key(ar, obj, attname, dictname) ==
    LET key == IF attname \in DOMAIN obj.att THEN obj.att[attname] ELSE None
    IN IF key # None /\ key \notin DOMAIN ar[1].att[dictname]
       THEN <<[kind |-> "post-DTD", att |-> attname, keys |-> <<key>>,
               line |-> obj.line]>>
       ELSE <<>>

\* Mutation of ch_keyseq: only the first key of the list is looked at.
ch_keyseq_HeadOnly(ar, obj, attname, dictname) ==
    LET keys == IF attname \in DOMAIN obj.att THEN obj.att[attname] ELSE <<>>
        badkeys == SelectSeq(IF keys = <<>> THEN <<>> ELSE <<Head(keys)>>,
                             LAMBDA x : x \notin DOMAIN ar[1].att[dictname]
                                        /\ x # None)
    IN IF badkeys # <<>>
       THEN <<[kind |-> "post-DTD", att |-> attname, keys |-> badkeys,
               line |-> obj.line]>>
       ELSE <<>>

\* _post_dtd_ch_keyseq (the attributes it is called for are lists whenever
\* they exist, so its keys-is-None branch is never taken)
ch_keyseq(ar, obj, attname, dictname) ==
    LET keys == IF attname \in DOMAIN obj.att THEN obj.att[attname] ELSE <<>>
        badkeys == SelectSeq(keys, LAMBDA x : x \notin DOMAIN ar[1].att[dictname]
                                              /\ x # None)
    IN IF badkeys # <<>>
       THEN <<[kind |-> "post-DTD", att |-> attname, keys |-> badkeys,
               line |-> obj.line]>>
       ELSE <<>>

\* _post_dtd_check_keys: the checks in their order; error() ends the
\* process at the first that fails, so only the head of this list is ever
\* printed.
check_keys(ar, obj) ==
    ch_key(ar, obj, "lang", "languages")
    \o ch_keyseq(ar, obj, "env", "environments")
    \o ch_key(ar, obj, "by", "editors")
    \o ch_key(ar, obj, "src", "sources")
    \o ch_key(ar, obj, "gr", "grammar")
    \o ch_key(ar, obj, "root", "extroots")
    \o ch_key(ar, obj, "c", "concepts")
    \o ch_keyseq(ar, obj, "closeto", "environments")
    \o ch_keyseq(ar, obj, "topic", "topics")
    \o ch_keyseq(ar, obj, "level", "levels")
    \o ch_keyseq(ar, obj, "related", "concepts")

\* _post_dtd_in_text: the first failure in the order of the walk, if any.
RECURSIVE in_text(_, _)
RECURSIVE InSegs(_, _)
in_text(ar, text) ==
    IF check_keys(ar, text) # <<>> THEN <<Head(check_keys(ar, text))>>
    ELSE InSegs(ar, text.segs)

InSegs(ar, segs) ==
    IF segs = <<>> THEN <<>>
    ELSE LET e == IF Head(segs).k = "text" THEN in_text(ar, Head(segs)) ELSE <<>>
         IN IF e # <<>> THEN e ELSE InSegs(ar, Tail(segs))

\* How the walk classifies the attribute values of a g-node.
DictNames == {KeydefSpecs[i][1] : i \in DOMAIN KeydefSpecs} \cup {"concepts"}

DsetNames == {"title", "desc", "version", "name", "shortname", "affiliation",
              "term", "details", "media", "origin", "comment"}

ChildNames == {"date", "email", "url", "rooturl", "browseurl", "nom", "stem"}

ListNames == {"decl"}

\* Dset.values()
DsetValues(dst) ==
    UNION {UNION {Range(dst.data[l][e]) : e \in DOMAIN dst.data[l]} :
             l \in DOMAIN dst.data}

\* The g-nodes that _post_dtd_in_node visits from a node, through its
\* attributes other than parent.
SubNodes(obj) ==
    UNION {IF a \in DictNames THEN Range(obj.att[a])
           ELSE IF a \in DsetNames THEN DsetValues(obj.att[a])
           ELSE IF a \in ListNames THEN Range(obj.att[a])
           ELSE IF a \in ChildNames /\ obj.att[a] # 0 THEN {obj.att[a]}
           ELSE {} : a \in DOMAIN obj.att}

\* _post_dtd_in_node: the failures the walk from a node can stop at.  The
\* node's own checks come first; the attributes are then walked in the order
\* of the node's __dict__, which the source does not fix, so the first
\* failure below any of them may be the one met.
RECURSIVE in_node(_, _)
in_node(ar, ix) ==
    LET obj == ar[ix]
        own == check_keys(ar, obj)
    IN IF own # <<>> THEN {Head(own)}
       ELSE (IF "text" \in DOMAIN obj.att THEN Range(in_text(ar, obj.att.text))
             ELSE {})
            \cup UNION {in_node(ar, c) : c \in SubNodes(obj)}

\* ------------------------------------------------------------------------
\* Specification SpecDset: one d-set of one owner in a glossary with declared
\* environments, driven through add and call.

MaxAdds == 2

\* Declared environments: sequences of <<key, closeto attribute>>.
EnvConfigs ==
    { <<>>,
      << <<envA, <<envB>>>>, <<envB, <<>>>> >>,
      << <<envA, <<envB>>>>, <<envB, <<envC>>>>, <<envC, <<>>>> >>,
      << <<envA, <<envC, envB>>>>, <<envB, <<>>>>, <<envC, <<>>>> >>,
      << <<envC, <<envA>>>>, <<envA, <<envB>>>>, <<envB, <<>>>> >> }

\* Environment.__init__ appends None to the closeto list.
EnvNode(decl, i) ==
    [type |-> "Environment", parent |-> 1, line |-> i + 1,
     att |-> [id |-> decl[1], closeto |-> Append(decl[2], None)]]

DsetGloss(lang, env, cfg) ==
    [type |-> "Glossary", parent |-> 0, line |-> 1,
     att |-> [lang |-> lang, env |-> env,
              environments |->
                  [k \in {cfg[i][1] : i \in DOMAIN cfg} |->
                      1 + CHOOSE i \in DOMAIN cfg : cfg[i][1] = k]]]

\* The owner of the d-set: a concept (no lang/env of its own) or a term.
Owners ==
    { [type |-> "Concept", att |-> [id |-> <<"c">>]],
      [type |-> "Term", att |-> [lang |-> langL2, env |-> <<envB>>]] }

DsetArena(glang, genv, cfg, owner) ==
    <<DsetGloss(glang, genv, cfg)>>
    \o [i \in 1..Len(cfg) |-> EnvNode(cfg[i], i)]
    \o <<[type |-> owner.type, parent |-> 1, line |-> Len(cfg) + 2,
          att |-> owner.att @@ [desc |-> NewDset(Len(cfg) + 2)]]>>

OwnerIx(ar) == CHOOSE i \in DOMAIN ar : "desc" \in DOMAIN ar[i].att

TheDset(ar) == ar[OwnerIx(ar)].att.desc

AddLangs == {None, langL1, langL2}

AddEnvLists == {<<envA>>, <<envB>>, <<None>>, <<envA, envB>>}

QueryLangs == {None, langL1, langL2}

QueryEnvs == {None, envA, envB, envC}

InitDset ==
    /\ pc = At("dset")
    /\ doc = <<>>
    /\ validate = FALSE
    /\ warns = <<>>
    /\ out = NoError
    /\ result = NoResult
    /\ \E cfg \in EnvConfigs, genv \in {<<None>>, <<envA>>}, owner \in Owners :
          arena = DsetArena(langL1, genv, cfg, owner)

NumAdded(ar) == Cardinality({i \in DOMAIN ar : ar[i].type = "Desc"})

\* dst.add(obj) for a freshly built child of the owner.
DsetAdd ==
    /\ pc = At("dset")
    /\ NumAdded(arena) < MaxAdds
    /\ \E lang \in AddLangs, env \in AddEnvLists :
          LET ow == OwnerIx(arena)
              o == Len(arena) + 1
              ar1 == Append(arena, [type |-> "Desc", parent |-> ow, line |-> o,
                                    att |-> [lang |-> lang, env |-> env]])
          IN arena' = [ar1 EXCEPT ![ow].att.desc = Dset_add(ar1, @, o)]
    /\ result' = NoResult
    /\ UNCHANGED <<pc, doc, validate, warns, out>>

\* dst(lang, env)
DsetQuery ==
    /\ pc = At("dset")
    /\ \E lang \in QueryLangs, env \in QueryEnvs :
          /\ result' = Dset_call(arena, TheDset(arena), lang, env)
                           @@ [lang |-> lang, env |-> env]
          /\ arena' = [arena EXCEPT ![OwnerIx(arena)].att.desc =
                          Dset_call_data(arena, @, lang, env)]
    /\ UNCHANGED <<pc, doc, validate, warns, out>>

NextDset == DsetAdd \/ DsetQuery

SpecDset == InitDset /\ [][NextDset]_vars

\* The call whose value is in result, as the d-set resolves its arguments.
CalledLang ==
    IF result.lang = None
    THEN parent_att(arena, TheDset(arena).parent, "lang", None)
    ELSE result.lang

CalledEnv ==
    IF result.env = None
    THEN parent_att(arena, TheDset(arena).parent, "env", <<None>>)[1]
    ELSE result.env

Declared(ar) == DOMAIN ar[1].att.environments

Closeto(ar, e) == ar[ar[1].att.environments[e]].att.closeto

Called == result.err # "nocall"

\* C1 precondition: the called environment a is declared with closeto [b]
\* (None appended by the constructor), b is declared, and (lang, b) is the
\* only bucket of the called language.
C1_Case(a, b) ==
    /\ Called
    /\ result.lang # None
    /\ result.env = a
    /\ a # b
    /\ {a, b} \subseteq Declared(arena)
    /\ Closeto(arena, a) = <<b, None>>
    /\ result.lang \in DOMAIN TheDset(arena).data
    /\ DOMAIN TheDset(arena).data[result.lang] = {b}

\* C1: with environments A (closeto [B]) and B declared and (L, B) the only
\* bucket of language L, the call dset(L, A) returns exactly the ordered
\* node list of the (L, B) bucket.
C1_ClosenessFallback ==
    \A a, b \in {envA, envB, envC} :
        C1_Case(a, b) =>
            /\ result.err = "none"
            /\ result.val = TheDset(arena).data[result.lang][b]

C1_Witness ==
    /\ C1_Case(envA, envB)
    /\ result.err = "none"
    /\ Len(result.val) = 2
    /\ result.val = TheDset(arena).data[result.lang][envB]

\* C2 (as claimed): a call never fails on a combination without content:
\* an absent language gives the empty list, and so does an environment
\* that has no bucket and is not a declared environment, whether or not
\* the glossary declares other environments.
C2_QueryNeverFails ==
    Called =>
        /\ CalledLang \notin DOMAIN TheDset(arena).data
                => result.err = "none" /\ result.val = <<>>
        /\ ( /\ CalledLang \in DOMAIN TheDset(arena).data
             /\ CalledEnv \notin DOMAIN TheDset(arena).data[CalledLang]
             /\ CalledEnv \notin Declared(arena) )
                => result.err = "none" /\ result.val = <<>>

\* The bucket that the fallback order gives for closeto list cl: that of the
\* first element of cl with a bucket, else the empty list.
FirstBucket(cl, buckets) ==
    LET hits == {i \in DOMAIN cl : cl[i] \in DOMAIN buckets}
    IN IF hits = {} THEN <<>>
       ELSE buckets[cl[CHOOSE i \in hits : \A j \in hits : i <= j]]

\* C22: a call for a declared environment A without bucket for the language
\* returns the bucket of the first element, in the order of A's declared
\* closeto list followed by None, that has a bucket for the language, else
\* the empty list; the closeto lists of A's close environments are not
\* followed.
C22_FallbackOrder ==
    (Called /\ CalledEnv \in Declared(arena)) =>
        /\ Closeto(arena, CalledEnv)[Len(Closeto(arena, CalledEnv))] = None
        /\ CalledLang \notin DOMAIN TheDset(arena).data
              => result = Ok(<<>>) @@ [lang |-> result.lang, env |-> result.env]
        /\ ( /\ CalledLang \in DOMAIN TheDset(arena).data
             /\ CalledEnv \notin DOMAIN TheDset(arena).data[CalledLang] )
              => /\ result.err = "none"
                 /\ result.val = FirstBucket(Closeto(arena, CalledEnv),
                                             TheDset(arena).data[CalledLang])

\* C is close to A and A to B, only B has a bucket, and the call for C has
\* returned the empty list.
C22_Witness ==
    /\ Called
    /\ result.env = envC
    /\ {envA, envB, envC} \subseteq Declared(arena)
    /\ Closeto(arena, envC) = <<envA, None>>
    /\ Closeto(arena, envA) = <<envB, None>>
    /\ CalledLang \in DOMAIN TheDset(arena).data
    /\ DOMAIN TheDset(arena).data[CalledLang] = {envB}
    /\ result.val = <<>>
    /\ result.err = "none"

MaxLen == 4

Alphabet == {"~", "|", ":", " ", "A", "B"}

RECURSIVE StringsUpTo(_)
StringsUpTo(n) ==
    IF n = 0 THEN {<<>>}
    ELSE LET shorter == StringsUpTo(n - 1)
         IN shorter \cup {Append(t, c) : t \in {u \in shorter : Len(u) = n - 1},
                                         c \in Alphabet}

TextFooBar == <<"~", "A", ":", "f", "o", "o", "|", "B", ":", "b", "a", "r", "~">>

TextEscape == <<"a", "~", "~", "b">>

TextEscapeAndSel == TextEscape \o TextFooBar

TextDefaultAlt == <<"x", "~", "A", ":", "f", "|", "g", "~", "y">>

TextEmptyKeys == <<"~", "A", ":", "f", "~", " ", "~", ":", "g", "~">>

TextClose == <<"~", "A", ":", "x", "~", "~", "B", ":", "y", "|", "z", "~">>

TextRepeat == <<"~", "A", " ", "B", ":", "x", "|", "y", "|", "B", ":", "z", "~">>

TextRepeatNonAscii == <<"~", sh, ":", "x", "|", sh, ":", "y", "~">>

SampleStrings == {TextFooBar, TextEscape, TextEscapeAndSel, TextDefaultAlt,
                  TextEmptyKeys, TextClose, TextRepeat, TextRepeatNonAscii}

ElStr(s) == [k |-> "str", s |-> s]

El(tag, line, attrib, content) ==
    [k |-> "el", tag |-> tag, line |-> line, attrib |-> attrib, content |-> content]

\* The contents of the <desc>: one run of characters, or a run inside <em>.
SelContents ==
    {IF s = <<>> THEN <<>> ELSE <<ElStr(s)>> : s \in StringsUpTo(MaxLen) \cup SampleStrings}
    \cup {<<ElStr(<<"a">>), El("em", 9, EmptyDict, <<ElStr(s)>>)>> : s \in SampleStrings}

\* The attributes of the <desc>: no env, one key, two keys, the empty string.
SelAttribs == {EmptyDict, [env |-> envC], [env |-> <<"A", " ", "B">>],
               [env |-> <<>>]}

SelEnvConfigs == {<<>>, << <<envA, <<envB>>>>, <<envB, <<>>>> >>}

SelGlossEnvs == {<<None>>, <<envA, envB>>}

\* The subobj that _child_dsets hands to _res_embsel.
SelArena(genv, cfg, el) ==
    LET ar0 == DsetArena(langL1, genv, cfg,
                         [type |-> "Concept", att |-> [id |-> <<"c">>]])
    IN (CHOOSE b \in Build(StartCs(ar0, <<>>), "Desc", Len(ar0), el) : TRUE).ar

InitSel ==
    /\ pc = At("sel")
    /\ validate = FALSE
    /\ warns = <<>>
    /\ out = NoError
    /\ result = NoResult
    /\ \E content \in SelContents, attrib \in SelAttribs :
          doc = El("desc", 8, attrib, content)
    /\ \E cfg \in SelEnvConfigs, genv \in SelGlossEnvs :
          arena = SelArena(genv, cfg, doc)

\* _res_embsel(gloss, subobj)
ResEmbsel ==
    /\ pc = At("sel")
    /\ \E r \in res_embsel(StartCs(arena, warns), Len(arena)) :
          /\ arena' = r.ar
          /\ warns' = r.warns
          /\ result' = [err |-> r.err, val |-> r.ixs]
    /\ pc' = At("resolved")
    /\ UNCHANGED <<doc, validate, out>>

NextSel == ResEmbsel

SpecSel == InitSel /\ [][NextSel]_vars

\* The node handed to the resolver, and what came back.
SubObj == OwnerIx(arena) + 1

Resolved == pc = At("resolved")

NoExplicitEnv == "env" \notin DOMAIN doc.attrib

RECURSIVE Plain(_)
RECURSIVE PlainSegs(_)
Plain(text) == PlainSegs(text.segs)

PlainSegs(segs) ==
    IF segs = <<>> THEN <<>>
    ELSE (IF Head(segs).k = "str" THEN Head(segs).s
          ELSE IF Head(segs).k = "text" THEN Plain(Head(segs))
          ELSE <<"?">>) \o PlainSegs(Tail(segs))

\* The environment keys of the selectors of a string as the selector grammar
\* reads it: ~~ is an escaped tilde, ~alt|alt~ a selector, an alternative
\* without a key prefix stands for the default environments.
AltKeys(alt, denvs) ==
    IF Find(alt, ":", 0) >= 0 THEN Range(SplitWs(Slice(alt, 0, Find(alt, ":", 0))))
    ELSE Range(denvs)

RECURSIVE GrammarKeys(_, _)
GrammarKeys(s, denvs) ==
    LET p == Find(s, "~", 0)
        q == Find(s, "~", p + 1)
    IN IF p < 0 \/ q < 0 THEN {}
       ELSE IF q = p + 1 THEN GrammarKeys(Slice(s, q + 1, Len(s)), denvs)
       ELSE UNION {AltKeys(alt, denvs) : alt \in Range(Split(Slice(s, p + 1, q), "|"))}
            \cup GrammarKeys(Slice(s, q + 1, Len(s)), denvs)

RECURSIVE ContentKeys(_, _)
ContentKeys(items, denvs) ==
    IF items = <<>> THEN {}
    ELSE (IF Head(items).k = "str" THEN GrammarKeys(Head(items).s, denvs)
          ELSE ContentKeys(Head(items).content, denvs))
         \cup ContentKeys(Tail(items), denvs)

\* The copies the resolver returned: the returned nodes other than the node
\* it was given.
Copies == {result.val[i] : i \in {j \in DOMAIN result.val : result.val[j] # SubObj}}

\* First half of C6: the text ~A:foo|B:bar~ of a node without explicit env
\* gives exactly two copies, env [A] reading foo and env [B] reading bar.
C6_FooBar ==
    (Resolved /\ NoExplicitEnv /\ doc.content = <<ElStr(TextFooBar)>>) =>
        /\ result.err = "none"
        /\ Len(result.val) = 2
        /\ Cardinality(Copies) = 2
        /\ {<<arena[i].att.env, Plain(arena[i].att.text)>> : i \in Copies}
              = {<<<<envA>>, <<"f", "o", "o">>>>, <<<<envB>>, <<"b", "a", "r">>>>}

\* C6 (as claimed): the text ~A:foo|B:bar~ of a node without explicit env
\* expands into exactly two copies, [A] with foo and [B] with bar; in
\* general the resolver returns one copy per distinct environment key in
\* the union of keys over all selectors of the text subtree, each copy's
\* env being exactly one such key and every key used by exactly one copy.
C6_ExpansionCount ==
    /\ C6_FooBar
    /\ Resolved =>
          LET keys == ContentKeys(doc.content, arena[SubObj].att.env)
          IN /\ result.err = "none"
             /\ Cardinality(Copies) = Cardinality(keys)
             /\ \A i \in Copies : \E e \in keys : arena[i].att.env = <<e>>
             /\ \A e \in keys :
                   Cardinality({i \in Copies : arena[i].att.env = <<e>>}) = 1

\* C7 (as claimed): for a node with a non-empty env list whose text is the
\* literal a~~b, the resolver returns the single original node, its text
\* reads a~b, and no node copy is produced.
C7_EscapeFidelity ==
    (Resolved /\ doc.content = <<ElStr(TextEscape)>> /\ arena[SubObj].att.env # <<>>) =>
        /\ result.err = "none"
        /\ result.val = <<SubObj>>
        /\ Plain(arena[SubObj].att.text) = <<"a", "~", "b">>
        /\ Len(arena) = SubObj

\* ------------------------------------------------------------------------
\* Specification SpecCons: dgproc on one document: from_file (the scan for
\* duplicate ids, then from_tree: Glossary.__init__ phase by phase and the
\* post-DTD validation) and a sieve reading the glossary through a d-set
\* call.  The XML parser, XInclude and the DTD validator are lxml's; the
\* documents below are well-formed and taken to be valid against the DTD.

MaxConcepts == 2

Key(a, b) == <<a, b>>

ElText(tag, attrib, s) == El(tag, 0, attrib, <<ElStr(s)>>)

\* <keydefs>: languages l1 l2, environments A (closeto B) and B, editor ed,
\* source so, topic tp, level lv; no grammar and no extroots container.
StdKeydefs ==
    El("keydefs", 0, EmptyDict,
       << El("languages", 0, EmptyDict,
             << El("language", 0, [id |-> langL1], <<ElText("name", EmptyDict, <<"E">>)>>),
                El("language", 0, [id |-> langL2], <<>>) >>),
          El("environments", 0, EmptyDict,
             << El("environment", 0, [id |-> envA, closeto |-> envB], <<>>),
                El("environment", 0, [id |-> envB], <<>>) >>),
          El("editors", 0, EmptyDict, <<El("editor", 0, [id |-> Key("e", "d")], <<>>)>>),
          El("sources", 0, EmptyDict, <<El("source", 0, [id |-> Key("s", "o")], <<>>)>>),
          El("topics", 0, EmptyDict, <<El("topic", 0, [id |-> Key("t", "p")], <<>>)>>),
          El("levels", 0, EmptyDict, <<El("level", 0, [id |-> Key("l", "v")], <<>>)>>) >>)

\* Fewer collections, and environment B close to the undeclared Q.
OddKeydefs ==
    El("keydefs", 0, EmptyDict,
       << El("languages", 0, EmptyDict,
             << El("language", 0, [id |-> langL1], <<>>),
                El("language", 0, [id |-> langL2], <<>>) >>),
          El("environments", 0, EmptyDict,
             << El("environment", 0, [id |-> envA, closeto |-> envB], <<>>),
                El("environment", 0, [id |-> envB, closeto |-> <<"Q">>], <<>>) >>),
          El("editors", 0, EmptyDict, <<El("editor", 0, [id |-> Key("e", "d")], <<>>)>>) >>)

Metadata == El("metadata", 0, EmptyDict, <<ElText("title", EmptyDict, <<"T">>)>>)

\* A title with two selectors, the first without an entry for B.
MetadataClose ==
    El("metadata", 0, EmptyDict, <<ElText("title", EmptyDict, TextClose)>>)

\* What precedes and what follows <concepts> in the document.
Prologues == {<<StdKeydefs>>, <<Metadata, StdKeydefs>>, <<OddKeydefs>>, <<>>,
              <<MetadataClose, StdKeydefs>>}

Layouts == {<<p, <<>>>> : p \in Prologues} \cup {<<<<>>, <<StdKeydefs>>>>}

Nom(s) == ElText("nom", EmptyDict, s)

\* The concepts a document is made of.
ConceptMenu ==
    { \* plain description; extended term in l2/B with children that state
      \* neither lang nor env
      El("concept", 0, [id |-> Key("c", "1"), related |-> Key("c", "2")],
         << ElText("desc", EmptyDict, <<"d">>),
            El("eterm", 0, [lang |-> langL2, env |-> envB],
               << Nom(<<"n">>), ElText("comment", EmptyDict, <<"k">>) >>) >>),
      \* references that hold: topic, level, by, src; a reference in the text
      El("concept", 0, [id |-> Key("c", "2"), topic |-> Key("t", "p"),
                        level |-> Key("l", "v")],
         << El("desc", 0, [by |-> Key("e", "d"), src |-> Key("s", "o")],
               <<ElStr(<<"s">>), El("ref", 0, [c |-> Key("c", "2")], <<ElStr(<<"r">>)>>)>>),
            ElText("term", [lang |-> langL2], <<"t">>) >>),
      \* a related list whose second key is dangling
      El("concept", 0, [id |-> Key("c", "3"),
                        related |-> <<"c", "2", " ", "z", "z">>],
         << ElText("term", EmptyDict, <<"t">>) >>),
      \* dangling topic and level keys on one node
      El("concept", 0, [id |-> Key("c", "8"), topic |-> <<"z", "t">>,
                        level |-> <<"l", "v", " ", "z">>],
         << ElText("term", EmptyDict, <<"t">>) >>),
      \* origin and comment naming an unknown editor
      El("concept", 0, [id |-> Key("c", "4")],
         << ElText("origin", [by |-> <<"g", "h">>], <<"o">>),
            ElText("term", EmptyDict, <<"t">>) >>),
      El("concept", 0, [id |-> Key("c", "5")],
         << ElText("comment", [by |-> <<"g", "h">>], <<"k">>) >>),
      \* selectors in a description, a simple term and an extended term
      El("concept", 0, [id |-> Key("c", "6")],
         << ElText("desc", EmptyDict, TextFooBar),
            ElText("term", EmptyDict, TextFooBar) >>),
      El("concept", 0, [id |-> Key("c", "7")],
         << El("eterm", 0, EmptyDict,
               << Nom(TextFooBar), ElText("origin", [src |-> <<"g", "h">>], <<"o">>) >>) >>),
      \* an id used twice, an undeclared environment, an escaped tilde
      El("concept", 0, [id |-> Key("c", "1")],
         << ElText("desc", [env |-> <<"Z">>], <<"d">>),
            ElText("comment", EmptyDict, TextEscape) >>),
      \* an id that is also the editor's; a description in two environments
      El("concept", 0, [id |-> Key("e", "d")],
         << ElText("desc", [lang |-> langL2, env |-> <<"A", " ", "B">>], <<"d">>) >>) }

RECURSIVE SeqsUpTo(_, _)
SeqsUpTo(S, n) ==
    IF n = 0 THEN {<<>>}
    ELSE LET shorter == SeqsUpTo(S, n - 1)
         IN shorter \cup {Append(t, x) : t \in {u \in shorter : Len(u) = n - 1},
                                         x \in S}

RootAttribs == {[id |-> <<"g">>, lang |-> langL1],
                [id |-> <<"g">>, lang |-> langL1, env |-> envA]}

\* sourceline: the elements numbered in document order.
RECURSIVE Numbered(_, _)
RECURSIVE NumberedItems(_, _)
Numbered(el, n) ==
    LET r == NumberedItems(el.content, n + 1)
    IN [el |-> [el EXCEPT !.line = n, !.content = r.items], next |-> r.next]

NumberedItems(items, n) ==
    IF items = <<>> THEN [items |-> <<>>, next |-> n]
    ELSE IF Head(items).k = "str"
    THEN LET r == NumberedItems(Tail(items), n)
         IN [items |-> <<Head(items)>> \o r.items, next |-> r.next]
    ELSE LET h == Numbered(Head(items), n)
             r == NumberedItems(Tail(items), h.next)
         IN [items |-> <<h.el>> \o r.items, next |-> r.next]

Documents ==
    {Numbered(El("glossary", 0, attrib,
                 layout[1] \o <<El("concepts", 0, EmptyDict, concepts)>>
                 \o layout[2]), 1).el :
        attrib \in RootAttribs, layout \in Layouts,
        concepts \in SeqsUpTo(ConceptMenu, MaxConcepts) \ {<<>>}}

InitCons ==
    /\ pc = At("start")
    /\ doc \in Documents
    /\ validate \in BOOLEAN
    /\ arena = <<>>
    /\ warns = <<>>
    /\ out = NoError
    /\ result = NoResult

\* What an uncaught exception or a finished step leaves: the step's outcome
\* cs becomes the state, the run going to pc `next` unless cs holds an
\* exception.
Land(cs, next) ==
    /\ arena' = cs.ar
    /\ warns' = cs.warns
    /\ IF cs.err # "none"
       THEN pc' = At("crash") /\ out' = [kind |-> "exception", name |-> cs.err]
       ELSE pc' = next /\ out' = out

\* from_file: the scan of all id attributes; error() exits at the first id
\* seen before.
from_file ==
    /\ pc = At("start")
    /\ LET ids == IdsOf(doc)
           dups == DupPositions(ids)
       IN IF validate /\ dups # {}
          THEN /\ pc' = At("fatal")
               /\ out' = [kind |-> "DTD", msg |-> "duplicate ID",
                          id |-> ids[CHOOSE j \in dups : \A i \in dups : j <= i]]
          ELSE /\ pc' = At("root")
               /\ out' = out
    /\ UNCHANGED <<doc, validate, arena, warns, result>>

\* Glossary.__init__: the root's own attributes
Glossary_attributes ==
    /\ pc = At("root")
    /\ arena' = GlossaryRoot(doc)
    /\ pc' = At("metadata")
    /\ UNCHANGED <<doc, validate, warns, out, result>>

\* Glossary.__init__: the <metadata> loop
Glossary_metadata ==
    /\ pc = At("metadata")
    /\ \E cs \in metadata(StartCs(arena, warns),
                          child_els_by_tag(doc, {"metadata"}, <<NoneEl>>)) :
          Land(cs, [at |-> "keydefs", k |-> 1, i |-> 1])
    /\ UNCHANGED <<doc, validate, result>>

\* Mutation of Glossary_keydefs: a collection whose container element is
\* absent is not created.
Glossary_keydefs_OnlyPresent ==
    /\ pc.at = "keydefs"
    /\ LET kd_nodes == child_els_by_tag(doc, {"keydefs"}, <<NoneEl>>)
           chmspec == KeydefSpecs[pc.i]
           next == IF pc.i < Len(KeydefSpecs) THEN [pc EXCEPT !.i = @ + 1]
                   ELSE IF pc.k < Len(kd_nodes)
                   THEN [pc EXCEPT !.k = @ + 1, !.i = 1]
                   ELSE At("concepts")
       IN \E cs \in child_dicts(StartCs(arena, warns),
                                child_els_by_tag(kd_nodes[pc.k], {chmspec[1]},
                                                 <<>>),
                                chmspec) :
             Land(cs, next)
    /\ UNCHANGED <<doc, validate, result>>

\* Glossary.__init__: one keyed collection of one <keydefs>
Glossary_keydefs ==
    /\ pc.at = "keydefs"
    /\ LET kd_nodes == child_els_by_tag(doc, {"keydefs"}, <<NoneEl>>)
           chmspec == KeydefSpecs[pc.i]
           next == IF pc.i < Len(KeydefSpecs) THEN [pc EXCEPT !.i = @ + 1]
                   ELSE IF pc.k < Len(kd_nodes)
                   THEN [pc EXCEPT !.k = @ + 1, !.i = 1]
                   ELSE At("concepts")
       IN \E cs \in child_dicts(StartCs(arena, warns),
                                child_els_by_tag(kd_nodes[pc.k], {chmspec[1]},
                                                 <<NoneEl>>),
                                chmspec) :
             Land(cs, next)
    /\ UNCHANGED <<doc, validate, result>>

\* Glossary.__init__: the <concepts> loop, then from_tree going on to the
\* post-DTD validation or returning
Glossary_concepts ==
    /\ pc = At("concepts")
    /\ \E cs \in child_dicts(StartCs(arena, warns),
                             child_els_by_tag(doc, {"concepts"}, <<NoneEl>>),
                             ConceptSpec) :
          Land(cs, IF validate THEN At("validate") ELSE At("constructed"))
    /\ UNCHANGED <<doc, validate, result>>

\* Mutation of post_dtd_validate: the failure is printed and the walk
\* returns.
post_dtd_validate_Continues ==
    /\ pc = At("validate")
    /\ LET errs == in_node(arena, 1)
       IN IF errs = {}
          THEN pc' = At("constructed") /\ out' = out
          ELSE pc' = At("constructed") /\ out' \in errs
    /\ UNCHANGED <<doc, validate, arena, warns, result>>

\* _post_dtd_validate: the walk ends the process at the first failure
post_dtd_validate ==
    /\ pc = At("validate")
    /\ LET errs == in_node(arena, 1)
       IN IF errs = {}
          THEN pc' = At("constructed") /\ out' = out
          ELSE pc' = At("fatal") /\ out' \in errs
    /\ UNCHANGED <<doc, validate, arena, warns, result>>

\* The d-sets of the glossary that hold something: <<owner, attribute>>.
FilledDsets(ar) ==
    UNION {{<<ix, a>> : a \in {b \in DOMAIN ar[ix].att \cap DsetNames :
                                  DOMAIN ar[ix].att[b].data # {}}} :
             ix \in DOMAIN ar}

SieveLangs == {None, langL1, langL2}

SieveEnvs == {None, envA}

\* main: a sieve is handed the glossary and reads it through a d-set call
sieve ==
    /\ pc = At("constructed")
    /\ \E d \in FilledDsets(arena), lang \in SieveLangs, env \in SieveEnvs :
          result' = Dset_call(arena, arena[d[1]].att[d[2]], lang, env)
                       @@ [owner |-> d[1], name |-> d[2], lang |-> lang, env |-> env]
    /\ pc' = At("sieved")
    /\ UNCHANGED <<doc, validate, arena, warns, out>>

NextCons ==
    \/ from_file
    \/ Glossary_attributes
    \/ Glossary_metadata
    \/ Glossary_keydefs
    \/ Glossary_concepts
    \/ post_dtd_validate
    \/ sieve

SpecCons == InitCons /\ [][NextCons]_vars

\* ------------------------------------------------------------------------
\* Properties of SpecCons.

\* The elements of the document in document order; sourceline numbers them
\* from 1, so the element a g-node was built from is the one at its line.
RECURSIVE ElemSeq(_)
RECURSIVE ElemSeqItems(_)
ElemSeq(el) == <<el>> \o ElemSeqItems(el.content)

ElemSeqItems(items) ==
    IF items = <<>> THEN <<>>
    ELSE (IF Head(items).k = "el" THEN ElemSeq(Head(items)) ELSE <<>>)
         \o ElemSeqItems(Tail(items))

ElOf(n) == ElemSeq(doc)[arena[n].line]

\* from_tree has returned the glossary.
Built == pc.at \in {"constructed", "sieved"}

\* The d-sets of the glossary with the nodes they hold: <<owner, name, node>>.
Stored ==
    UNION {UNION {{<<ix, a, n>> : n \in DsetValues(arena[ix].att[a])} :
                    a \in DOMAIN arena[ix].att \cap DsetNames} :
             ix \in DOMAIN arena}

\* The buckets of a d-set that hold node n: <<lang, env>>.
BucketsOf(dst, n) ==
    UNION {{<<l, e>> : e \in {x \in DOMAIN dst.data[l] : n \in Range(dst.data[l][x])}} :
             l \in DOMAIN dst.data}

\* Some character data below the items holds a tilde.
RECURSIVE HasTilde(_)
HasTilde(items) ==
    \E i \in DOMAIN items :
       IF items[i].k = "str" THEN "~" \in Range(items[i].s)
       ELSE HasTilde(items[i].content)

\* C3 (as claimed): a d-set child without explicit env attribute (and
\* without selectors), under a nearest env-bearing ancestor whose env is
\* [X], has env [X] after construction, is stored in the X bucket of its
\* owning d-set, and is returned when that d-set is queried without an
\* explicit environment.
C3_EnvInheritance ==
    Built =>
      \A s \in Stored :
         LET dst == arena[s[1]].att[s[2]]
             n == s[3]
             X == parent_att(arena, s[1], "env", <<None>>)
             r == Dset_call(arena, dst, arena[n].att.lang, None)
         IN ("env" \notin DOMAIN ElOf(n).attrib /\ ~HasTilde(ElOf(n).content)
             /\ Len(X) = 1) =>
               /\ arena[n].att.env = X
               /\ \E b \in BucketsOf(dst, n) : b[2] = X[1]
               /\ r.err = "none" /\ n \in Range(r.val)

\* C4 (as claimed): Dset.add files a node without explicit lang attribute
\* under the language of its nearest ancestor that specifies one, walking
\* the parent chain from the d-set's owner, also when that language differs
\* from the glossary root's.
C4_LangInheritance ==
    Built =>
      \A s \in Stored :
         LET dst == arena[s[1]].att[s[2]]
             L == parent_att(arena, s[1], "lang", None)
         IN "lang" \notin DOMAIN ElOf(s[3]).attrib =>
               \A b \in BucketsOf(dst, s[3]) : b[1] = L

\* Two elements of the document carry the same id.
SameIdTwice ==
    LET els == ElemSeq(doc)
    IN \E i, j \in DOMAIN els :
          /\ i < j
          /\ "id" \in DOMAIN els[i].attrib /\ "id" \in DOMAIN els[j].attrib
          /\ els[i].attrib.id = els[j].attrib.id

\* The g-node types kept in the keyed collections of the glossary.
KeyedTypes == {KeydefSpecs[i][2] : i \in DOMAIN KeydefSpecs} \cup {"Concept"}

\* Every g-node built for a keyed collection is still an entry of one.
NothingOverwritten ==
    \A ix \in DOMAIN arena :
       arena[ix].type \in KeyedTypes =>
          \E d \in DOMAIN arena[1].att \cap DictNames : ix \in Range(arena[1].att[d])

\* The run was ended by the duplicate-id error or has not started, no typed
\* node exists and no sieve has run.
AbortedBeforeBuilding ==
    /\ pc.at \in {"start", "fatal"}
    /\ pc.at = "fatal" => (out.kind = "DTD" /\ out.msg = "duplicate ID")
    /\ arena = <<>>
    /\ result = NoResult

\* C5 (as claimed): for every document in which two elements carry the same
\* id, construction aborts with a fatal error before any typed node is
\* built and before any sieve runs; no keyed collection ever overwrites an
\* entry with a later node of the same id.
C5_DuplicateIdFatal_AsClaimed ==
    /\ SameIdTwice => AbortedBeforeBuilding
    /\ NothingOverwritten

\* C5 (amended): with validation enabled (the default, no --no-check), a
\* document in which two elements carry the same id is ended by the fatal
\* duplicate-ID error before any typed node is built and before any sieve
\* runs, and no keyed collection overwrites an entry.
C5_DuplicateIdFatal ==
    validate =>
       /\ SameIdTwice => AbortedBeforeBuilding
       /\ NothingOverwritten

\* The duplicate-id error has ended a run on a document whose repeated id
\* sits on elements of different kinds, an editor and a concept.
C5_Witness ==
    /\ validate
    /\ pc = At("fatal")
    /\ out.kind = "DTD" /\ out.id = Key("e", "d")
    /\ SameIdTwice

\* The g-nodes of the glossary as handed to validation: the root and what
\* its collections, d-sets, lists and single children hold.
RECURSIVE InTree(_, _)
InTree(ar, ix) ==
    \/ ix = 1
    \/ /\ ar[ix].parent # 0
       /\ ix \in SubNodes(ar[ar[ix].parent])
       /\ InTree(ar, ar[ix].parent)

\* The key lists and the keyed collection each must draw from.
ListAtts == [related |-> "concepts", topic |-> "topics", level |-> "levels",
             env |-> "environments", closeto |-> "environments"]

\* The keys of a list that are neither None nor in the collection.
Dangling(ar, ix, a) ==
    SelectSeq(ar[ix].att[a],
              LAMBDA x : x # None /\ x \notin DOMAIN ar[1].att[ListAtts[a]])

\* What a message about a dangling list reference says: attribute,
\* offending keys, source line of the node.
ListViolations(ar) ==
    UNION {{[kind |-> "post-DTD", att |-> a, keys |-> Dangling(ar, ix, a),
             line |-> ar[ix].line] :
              a \in {b \in DOMAIN ListAtts \cap DOMAIN ar[ix].att :
                       Dangling(ar, ix, b) # <<>>}} :
             ix \in {i \in DOMAIN ar : InTree(ar, i)}}

\* C8 (as claimed): for every node whose related, topic, level, env or
\* closeto list holds a non-null key absent from its keyed collection,
\* validation ends in a fatal error whose message names the attribute, the
\* offending keys and the node's source line.
C8_DanglingListRefs_AsClaimed ==
    [][pc = At("validate") =>
          \A v \in ListViolations(arena) : pc' = At("fatal") /\ out' = v]_vars

\* The single keys and the keyed collection each must name an entry of.
ScalarAtts == [lang |-> "languages", by |-> "editors", src |-> "sources",
               gr |-> "grammar", root |-> "extroots", c |-> "concepts"]

\* A g-node or a text states a single key that its collection lacks.
BadScalar(ar, obj) ==
    \E a \in DOMAIN ScalarAtts \cap DOMAIN obj.att :
       obj.att[a] # None /\ obj.att[a] \notin DOMAIN ar[1].att[ScalarAtts[a]]

RECURSIVE BadText(_, _)
BadText(ar, text) ==
    \/ BadScalar(ar, text)
    \/ \E i \in DOMAIN text.segs :
          text.segs[i].k = "text" /\ BadText(ar, text.segs[i])

\* The glossary has a violation that is not a dangling list reference.
OtherViolation(ar) ==
    \E ix \in DOMAIN ar :
       /\ InTree(ar, ix)
       /\ \/ BadScalar(ar, ar[ix])
          \/ "text" \in DOMAIN ar[ix].att /\ BadText(ar, ar[ix].att.text)

\* C8 (amended): when post-DTD validation runs on a glossary with a node
\* whose related, topic, level, env or closeto list holds a non-null key
\* absent from its keyed collection, it ends in a fatal post-DTD error that
\* names the first violation met; a message about a list attribute names
\* that attribute, all its offending keys and the line of a node that has
\* them, and when dangling list references are the only violations the
\* message is about one of them.
C8_DanglingListRefs ==
    [][(pc = At("validate") /\ ListViolations(arena) # {}) =>
          /\ pc' = At("fatal")
          /\ out'.kind = "post-DTD"
          /\ out'.att \in DOMAIN ListAtts => out' \in ListViolations(arena)
          /\ ~OtherViolation(arena) => out' \in ListViolations(arena)]_vars

\* Validation has rejected a concept whose related list holds the unknown
\* concept key c2, naming related, c2 and the concept's line.
C8_Witness ==
    /\ pc = At("fatal")
    /\ out.kind = "post-DTD"
    /\ out.att = "related" /\ out.keys = <<Key("c", "2")>>
    /\ \E ix \in DOMAIN arena :
          /\ arena[ix].type = "Concept" /\ arena[ix].line = out.line
          /\ Key("c", "2") \in Range(arena[ix].att.related)
          /\ Key("c", "2") \notin DOMAIN arena[1].att.concepts

\* C9 (as claimed): every element of the document that carries a by or src
\* attribute naming a key absent from gloss.editors / gloss.sources causes
\* a fatal referential error, so a validated glossary is never handed on
\* with such an element.
C9_EditorSourceRefs ==
    (validate /\ Built) =>
       \A i \in DOMAIN ElemSeq(doc) :
          LET at == ElemSeq(doc)[i].attrib
          IN /\ "by" \in DOMAIN at => at.by \in DOMAIN arena[1].att.editors
             /\ "src" \in DOMAIN at => at.src \in DOMAIN arena[1].att.sources

\* A string holds an embedded-selector span: two tildes with something
\* between them that is not a tilde.
SelectorSpan(s) ==
    \E i, j \in DOMAIN s :
       /\ i + 1 < j
       /\ s[i] = "~" /\ s[j] = "~"
       /\ \A m \in (i + 1)..(j - 1) : s[m] # "~"

\* Some segment of a text is a selector mapping or a string with a selector
\* span.
RECURSIVE Unresolved(_)
Unresolved(segs) ==
    \E i \in DOMAIN segs :
       CASE segs[i].k = "sel" -> TRUE
         [] segs[i].k = "str" -> SelectorSpan(segs[i].s)
         [] OTHER -> Unresolved(segs[i].segs)

\* The texts of a node stored in a d-set: its own and, for a term, that of
\* its nominal form.
TextsOf(n) ==
    (IF "text" \in DOMAIN arena[n].att THEN {arena[n].att.text} ELSE {})
    \cup (IF "nom" \in DOMAIN arena[n].att /\ arena[n].att.nom # 0
          THEN {arena[arena[n].att.nom].att.text} ELSE {})

\* C10 (as claimed): when construction returns, no text of any node stored
\* in any d-set still holds an embedded-selector span or a selector
\* mapping, the nominal form of a term included.
C10_SelectorsResolved ==
    Built => \A s \in Stored : \A t \in TextsOf(s[3]) : ~Unresolved(t.segs)

\* The attribute names of a list of specs.
SpecNames(specs) == {specs[i][1] : i \in DOMAIN specs}

\* The attributes the constructor of a node type is written to give it.
TypeAtts(t) ==
    IF t = "Glossary"
    THEN {"id", "lang", "env"} \cup SpecNames(MetadataDsets)
         \cup SpecNames(MetadataChildren) \cup DictNames
    ELSE SpecNames(TypeSpec(t).atts) \cup SpecNames(TypeSpec(t).lists)
         \cup SpecNames(TypeSpec(t).dsets) \cup SpecNames(TypeSpec(t).chlists)
         \cup SpecNames(TypeSpec(t).children)
         \cup (IF TypeSpec(t).text THEN {"text"} ELSE {})

\* C11 (as claimed): after construction every node has every attribute of
\* its node type defined; an optional singleton child absent from an element
\* that is itself present is the null value, absent lists are empty
\* sequences and absent keyed collections empty mappings.
C11_TypeStableAttributes ==
    Built =>
       \A ix \in DOMAIN arena :
          /\ TypeAtts(arena[ix].type) \subseteq DOMAIN arena[ix].att
          /\ ix # 1 =>
                \A i \in DOMAIN TypeSpec(arena[ix].type).children :
                   LET c == TypeSpec(arena[ix].type).children[i]
                       host == ContentNode(arena[ix].type, ElOf(ix))
                   IN (host # NoneEl /\ child_els_by_tag(host, c[3], <<>>) = <<>>)
                         => (c[1] \in DOMAIN arena[ix].att /\ arena[ix].att[c[1]] = 0)

\* C12 (as claimed): the env of the glossary root and of every node that
\* has one is a non-empty sequence, and every expanded selector copy has an
\* env of exactly one element.
C12_EnvNeverEmpty ==
    pc = At("resolved") =>
       /\ \A ix \in DOMAIN arena :
             "env" \in DOMAIN arena[ix].att => arena[ix].att.env # <<>>
       /\ result.err = "none" =>
             \A i \in DOMAIN result.val :
                result.val[i] # OwnerIx(arena) + 1
                   => Len(arena[result.val[i]].att.env) = 1

\* The ids declared by the elements of one tag among es.
DeclaredIds(es, tag) ==
    {es[i].attrib.id : i \in {j \in DOMAIN es : es[j].tag = tag}}

\* All eight keyed collections of <keydefs> exist in the root ar[1] and hold
\* a node of their type for exactly the ids declared among es.
CollectionsComplete(ar, es) ==
    \A i \in DOMAIN KeydefSpecs :
       /\ KeydefSpecs[i][1] \in DOMAIN ar[1].att
       /\ DOMAIN ar[1].att[KeydefSpecs[i][1]] = DeclaredIds(es, KeydefSpecs[i][3])
       /\ \A k \in DOMAIN ar[1].att[KeydefSpecs[i][1]] :
             ar[ar[1].att[KeydefSpecs[i][1]][k]].type = KeydefSpecs[i][2]

KeydefsComplete(ar) == ar # <<>> /\ CollectionsComplete(ar, ElemSeq(doc))

HasConcept(ar) == \E ix \in DOMAIN ar : ar[ix].type = "Concept"

\* C13: no concept node is constructed before all eight keyed collections
\* exist and are completely populated: a step that leaves a concept node in
\* the tree starts from, and ends in, a glossary whose collections are
\* complete, wherever <keydefs> stands in the document and whatever it
\* lacks.
C13_ConceptsAfterKeydefs ==
    [][HasConcept(arena') => (KeydefsComplete(arena) /\ KeydefsComplete(arena'))]_vars

\* Concepts have been built for a document whose <concepts> precedes its
\* <keydefs>, and for one without <keydefs>.
C13_Witness ==
    /\ pc = At("constructed")
    /\ HasConcept(arena)
    /\ ElemSeq(doc)[2].tag = "concepts"
    /\ child_els_by_tag(doc, {"keydefs"}, <<>>) # <<>>
    /\ arena[1].att.editors # EmptyDict

\* What holds in every state for a fatal error and for a sieve: after a
\* fatal error one message has been printed and no sieve has run; a sieve
\* has run only on a built glossary, with no error printed, and with
\* checking on only for a document without a repeated id.
FatalAndSieveStates ==
    /\ pc = At("fatal") =>
          /\ result = NoResult
          /\ validate
          /\ out.kind \in {"DTD", "post-DTD"}
          /\ out.kind = "DTD" => arena = <<>>
    /\ result # NoResult =>
          /\ pc = At("sieved")
          /\ out = NoError
          /\ Built
          /\ validate => DupPositions(IdsOf(doc)) = {}

\* What holds of every step: none leaves a fatal error; the duplicate-id
\* scan stops at the first repeated id and the validator at one first
\* failure of its walk; with checking on the glossary is only handed over by
\* a walk that found nothing; a sieve gets the glossary that was handed over.
FatalAndSieveSteps ==
    /\ pc # At("fatal")
    /\ pc' = At("fatal") =>
          \/ /\ pc = At("start")
             /\ \E j \in DupPositions(IdsOf(doc)) :
                   /\ out'.id = IdsOf(doc)[j]
                   /\ \A i \in DupPositions(IdsOf(doc)) : j <= i
          \/ /\ pc = At("validate")
             /\ out' \in in_node(arena, 1)
             /\ arena' = arena
    /\ (pc' = At("constructed") /\ validate) =>
          (pc = At("validate") /\ in_node(arena, 1) = {})
    /\ pc' = At("sieved") => (pc = At("constructed") /\ arena' = arena)

\* C14: a fatal error of the duplicate-id scan or of the referential
\* validator ends the run at the first such error: nothing happens after it,
\* the validator reports one failure and goes no further, and no sieve runs;
\* a sieve runs only after construction and, with checking on, a completed
\* validation of the whole tree.
C14_FatalHalts == []FatalAndSieveStates /\ [][FatalAndSieveSteps]_vars

\* The validator has ended the run on a built glossary with concepts, and
\* no sieve has run.
C14_Witness ==
    /\ pc = At("fatal")
    /\ out.kind = "post-DTD"
    /\ HasConcept(arena)
    /\ result = NoResult

\* ------------------------------------------------------------------------
\* Further properties of SpecSel.

\* The 0-based position of the opening tilde that has no closing one, the
\* tildes of a string being paired from the left; -1 when all are paired.
OpenTilde(s) ==
    LET tildes == {i \in DOMAIN s : s[i] = "~"}
    IN IF Cardinality(tildes) % 2 = 0 THEN -1
       ELSE (CHOOSE i \in tildes : \A j \in tildes : j <= i) - 1

EndsWith(t, u) == Len(t) >= Len(u) /\ Slice(t, Len(t) - Len(u), Len(t)) = u

\* The <desc> holds one run of characters with an unterminated selector.
HasUnterminated ==
    /\ Len(doc.content) = 1
    /\ doc.content[1].k = "str"
    /\ OpenTilde(doc.content[1].s) >= 0

\* What the unterminated selector of string s leaves in a resolved state.
\* denvs are the node's environments, span the text from the opening tilde
\* on, pre the parse of what precedes it.
UnterminatedRecovered(s, span, pre) ==
    /\ Cardinality({i \in DOMAIN warns : warns[i].kind = "unterminated"}) = 1
    /\ \E i \in DOMAIN warns : warns[i] = [kind |-> "unterminated", esel |-> s]
    /\ result.err = "none" =>
          /\ \A i \in Range(result.val) : EndsWith(Plain(arena[i].att.text), span)
          /\ {arena[i].att.env : i \in Copies} = {<<e>> : e \in pre.envs}
          /\ pre.envs = {} => result.val = <<SubObj>>
    /\ result.err # "none" =>
          \E j \in DOMAIN pre.ntext :
             /\ pre.ntext[j].k = "sel"
             /\ \E e \in pre.envs : e \notin DOMAIN pre.ntext[j].map

\* C15: an unterminated selector is recoverable: one warning is issued for
\* the segment, every node the resolver returns reads the text from the
\* opening tilde to the end of the segment literally at its end, the
\* environments of the copies are those of the well-formed selectors before
\* the opening tilde (none of them: the node itself comes back), and the
\* resolver raises only over a well-formed selector that lacks an entry.
C15_UnterminatedRecoverable ==
    (Resolved /\ HasUnterminated) =>
        UnterminatedRecovered(
            doc.content[1].s,
            Slice(doc.content[1].s, OpenTilde(doc.content[1].s),
                  Len(doc.content[1].s)),
            res_embsel_parse_one(Slice(doc.content[1].s, 0,
                                       OpenTilde(doc.content[1].s)),
                                 arena[SubObj].att.env, <<>>))

\* A selector followed by an unterminated one has been resolved into copies.
C15_Witness ==
    /\ Resolved
    /\ HasUnterminated
    /\ OpenTilde(doc.content[1].s) >= 3
    /\ result.err = "none"
    /\ Copies # {}
    /\ warns # <<>>

\* ------------------------------------------------------------------------
\* Specification SpecIndex: the index of one d-set under add, rename_lang and
\* rename_env, read through envs; the nodes added and the glossary may have
\* an empty env list (an env attribute holding no key).

IndexEnvConfigs ==
    { <<>>,
      << <<envA, <<>>>>, <<envB, <<envA>>>>, <<envC, <<envB, envA>>>> >> }

IndexGlossEnvs == {<<None>>, <<envA>>, <<>>}

IndexAddLangs == {None, langL2}

IndexAddEnvLists == {<<>>, <<envA>>, <<envB, envC>>, <<envA, envA>>}

\* The renamings tried: <<old key, new key>>.
IndexLangRenames == {<<langL1, langL2>>, <<langL2, langL2>>}

IndexEnvRenames == {<<envA, envB>>, <<envB, envC>>}

IndexEnvsLangs == {None, langL2}

InitIndex ==
    /\ pc = At("index")
    /\ doc = <<>>
    /\ validate = FALSE
    /\ warns = <<>>
    /\ out = NoError
    /\ result = NoResult
    /\ \E cfg \in IndexEnvConfigs, genv \in IndexGlossEnvs, owner \in Owners :
          arena = DsetArena(langL1, genv, cfg, owner)

\* dst.add(obj) for a freshly built child of the owner.
IndexAdd ==
    /\ pc = At("index")
    /\ NumAdded(arena) < MaxAdds
    /\ \E lang \in IndexAddLangs, env \in IndexAddEnvLists :
          LET ow == OwnerIx(arena)
              o == Len(arena) + 1
              ar1 == Append(arena, [type |-> "Desc", parent |-> ow, line |-> o,
                                    att |-> [lang |-> lang, env |-> env]])
          IN arena' = [ar1 EXCEPT ![ow].att.desc = Dset_add(ar1, @, o)]
    /\ result' = NoResult
    /\ UNCHANGED <<pc, doc, validate, warns, out>>

\* dst.rename_lang(olang, nlang)
IndexRenameLang ==
    /\ pc = At("index")
    /\ \E r \in IndexLangRenames :
          arena' = [arena EXCEPT ![OwnerIx(arena)].att.desc =
                       Dset_rename_lang(@, r[1], r[2])]
    /\ result' = NoResult
    /\ UNCHANGED <<pc, doc, validate, warns, out>>

\* dst.rename_env(oenv, nenv)
IndexRenameEnv ==
    /\ pc = At("index")
    /\ \E r \in IndexEnvRenames :
          arena' = [arena EXCEPT ![OwnerIx(arena)].att.desc =
                       Dset_rename_env(@, r[1], r[2])]
    /\ result' = NoResult
    /\ UNCHANGED <<pc, doc, validate, warns, out>>

\* dst.envs(lang)
IndexEnvs ==
    /\ pc = At("index")
    /\ \E lang \in IndexEnvsLangs :
          \E r \in Dset_envs(arena, TheDset(arena), lang) :
             result' = r @@ [lang |-> lang, env |-> None]
    /\ UNCHANGED <<pc, doc, validate, arena, warns, out>>

NextIndex == IndexAdd \/ IndexRenameLang \/ IndexRenameEnv \/ IndexEnvs

SpecIndex == InitIndex /\ [][NextIndex]_vars

\* C17 (as claimed): after any sequence of add, rename_lang and rename_env,
\* every language key of the index has at least one environment bucket and
\* every bucket is a non-empty list, whatever the env list of the nodes
\* added and the inherited default env list are.
C17_IndexInvariant ==
    \A l \in Dset_langs(TheDset(arena)) :
       /\ DOMAIN TheDset(arena).data[l] # {}
       /\ \A e \in DOMAIN TheDset(arena).data[l] : TheDset(arena).data[l][e] # <<>>

\* The environments that envs is to return for the bucket keys of a
\* language: the keys, and the declared environments whose closeto list
\* holds one of them.
ExpandedKeys(ar, keys) ==
    keys \cup {E \in Declared(ar) : \E k \in keys : k \in Range(Closeto(ar, E))}

\* C18: envs(lang) returns, without duplicates, exactly the environment keys
\* that have a bucket for the language plus every declared environment
\* whose closeto list (the None appended by the constructor included) holds
\* one of those keys; for a language that is not in the index it returns
\* None.
C18_EnvsExpanded ==
    Called =>
       /\ result.err = "none"
       /\ IF CalledLang \in DOMAIN TheDset(arena).data
          THEN /\ result.val # None
               /\ Range(result.val)
                     = ExpandedKeys(arena, DOMAIN TheDset(arena).data[CalledLang])
               /\ Cardinality(Range(result.val)) = Len(result.val)
          ELSE result.val = None

\* envs has returned a declared environment that has no bucket, next to
\* more than one bucket key.
C18_Witness ==
    /\ Called
    /\ CalledLang \in DOMAIN TheDset(arena).data
    /\ Cardinality(DOMAIN TheDset(arena).data[CalledLang]) > 1
    /\ \E E \in Range(result.val) : E \notin DOMAIN TheDset(arena).data[CalledLang]
    /\ None \notin DOMAIN TheDset(arena).data[CalledLang]

\* ------------------------------------------------------------------------
\* The priority of selector resolution (SpecSel).

\* The text s is what the priority rule allows for a spot with mapping map
\* in the copy for environment E: the entry for E; else the entry of the
\* first environment of E's declared closeto list that has one; else any
\* entry.
ByPriority(ar, map, E, s) ==
    IF E \in DOMAIN map THEN s = map[E]
    ELSE LET cl == IF E \in Declared(ar) THEN Closeto(ar, E) ELSE <<>>
             hits == {i \in DOMAIN cl : cl[i] \in DOMAIN map}
         IN IF hits # {}
            THEN s = map[cl[CHOOSE i \in hits : \A j \in hits : i <= j]]
            ELSE \E e \in DOMAIN map : s = map[e]

\* The segments segs of a copy for E follow the normalised segments nsegs:
\* every selector spot by the priority rule, everything else unchanged.
RECURSIVE FollowsPriority(_, _, _, _)
FollowsPriority(ar, nsegs, segs, E) ==
    /\ Len(segs) = Len(nsegs)
    /\ \A j \in DOMAIN nsegs :
          IF nsegs[j].k = "sel"
          THEN segs[j].k = "str" /\ ByPriority(ar, nsegs[j].map, E, segs[j].s)
          ELSE IF nsegs[j].k = "text"
          THEN segs[j].k = "text"
               /\ FollowsPriority(ar, nsegs[j].segs, segs[j].segs, E)
          ELSE segs[j] = nsegs[j]

\* The copies in ar1 that the resolver made of a node whose text normalises
\* to ntext all follow the priority rule.
CopiesFollowPriority(ar1, ntext, copies) ==
    \A i \in copies :
       /\ Len(ar1[i].att.env) = 1
       /\ FollowsPriority(ar1, ntext.segs, ar1[i].att.text.segs, ar1[i].att.env[1])

\* C19: in the text rebuilt for the copy of environment E every selector
\* spot reads its entry for E if it has one, otherwise the entry of the
\* first environment in E's declared closeto order (one hop, None last) it
\* has an entry for, and an arbitrary entry of the spot only if neither
\* applies.
C19_ResolutionPriority ==
    [][CopiesFollowPriority(
           arena',
           res_embsel_norm_text(arena[SubObj].att.text, arena[SubObj].att.env,
                                <<>>).ntext,
           {i \in DOMAIN arena' : i > SubObj})]_vars

\* A copy for environment A has read a spot that has no entry for A but
\* entries for two environments of A's closeto list.
C19_Witness ==
    /\ Resolved
    /\ result.err = "none"
    /\ doc.content = <<ElStr(TextClose)>>
    /\ envA \in Declared(arena)
    /\ arena[1].att.env = <<None>>
    /\ NoExplicitEnv
    /\ \E i \in Copies :
          arena[i].att.env = <<envA>> /\ Plain(arena[i].att.text) = <<"x", "y">>

\* The selector spots of normalised segments, nested texts included.
RECURSIVE SelSpots(_)
SelSpots(nsegs) ==
    IF nsegs = <<>> THEN {}
    ELSE (IF Head(nsegs).k = "sel" THEN {Head(nsegs)}
          ELSE IF Head(nsegs).k = "text" THEN SelSpots(Head(nsegs).segs)
          ELSE {})
         \cup SelSpots(Tail(nsegs))

\* The spot has neither an entry for E nor one for an environment of E's
\* declared closeto list.
NeedsBestEffort(ar, map, E) ==
    /\ E \notin DOMAIN map
    /\ E \in Declared(ar) => \A i \in DOMAIN Closeto(ar, E) :
                                Closeto(ar, E)[i] \notin DOMAIN map

\* What C20 asks of a resolver step that normalised the text to n: it does
\* not raise, and for every target environment and every spot needing a
\* best-effort pick a warning naming both has been printed.
BestEffortReported(n) ==
    /\ result'.err = "none"
    /\ \A E \in n.envs, spot \in SelSpots(n.ntext.segs) :
          NeedsBestEffort(arena, spot.map, E) =>
             \E i \in DOMAIN warns' :
                warns'[i] = [kind |-> "noresolution", esel |-> spot.unparsed,
                             env |-> E]

\* C20 (as claimed): whenever a selector spot has neither an exact entry nor
\* a single-hop closeto entry for the target environment, a warning is
\* emitted and construction continues without a crash, for every target
\* environment, those among the glossary's default environments included,
\* and for spots whose mapping is empty.
C20_BestEffortWarned ==
    [][BestEffortReported(
           res_embsel_norm_text(arena[SubObj].att.text, arena[SubObj].att.env,
                                <<>>))]_vars

\* ------------------------------------------------------------------------
\* Repeated environments in one selector (SpecSel).

\* The string is one selector and nothing else: ~alt|...|alt~.
WholeSelector(s) ==
    /\ Len(s) >= 2
    /\ {i \in DOMAIN s : s[i] = "~"} = {1, Len(s)}

Alts(s) == Split(Slice(s, 1, Len(s) - 1), "|")

\* The text of an alternative: what follows its key prefix.
AltText(alt) ==
    IF Find(alt, ":", 0) >= 0 THEN Slice(alt, Find(alt, ":", 0) + 1, Len(alt))
    ELSE alt

\* The alternatives that assign a key an earlier alternative assigned.
Repeating(alts, denvs) ==
    {j \in DOMAIN alts :
        \E i \in 1..(j - 1) : AltKeys(alts[i], denvs) \cap AltKeys(alts[j], denvs) # {}}

\* The <desc> holds one selector some alternative of which repeats a key.
HasRepeat ==
    /\ Len(doc.content) = 1
    /\ doc.content[1].k = "str"
    /\ WholeSelector(doc.content[1].s)
    /\ Repeating(Alts(doc.content[1].s), arena[SubObj].att.env) # {}

\* What a repeated key leaves in a resolved state: a warning for every
\* repeating alternative, no exception, and for every key the text of the
\* last alternative that assigns it.
RepeatHandled(s, alts, denvs) ==
    /\ result.err = "none"
    /\ \A j \in Repeating(alts, denvs) :
          \E i \in DOMAIN warns :
             /\ warns[i].kind = "repeats"
             /\ warns[i].esel = s
             /\ warns[i].eseg = alts[j]
    /\ \A c \in Copies :
          \E j \in DOMAIN alts :
             /\ arena[c].att.env[1] \in AltKeys(alts[j], denvs)
             /\ \A k \in (j + 1)..Len(alts) :
                   arena[c].att.env[1] \notin AltKeys(alts[k], denvs)
             /\ Plain(arena[c].att.text) = AltText(alts[j])

\* C21 (as claimed): when two alternatives of one selector assign the same
\* environment key, explicitly or through the node's default env list, a
\* warning is issued, construction continues, and the text of the later
\* alternative is the one recorded for that key.
C21_RepeatedEnvWarned ==
    (Resolved /\ HasRepeat) =>
        RepeatHandled(doc.content[1].s, Alts(doc.content[1].s),
                      arena[SubObj].att.env)

\* ------------------------------------------------------------------------
\* Accumulation by add (SpecIndex).

BucketAt(dst, l, e) ==
    IF l \in DOMAIN dst.data /\ e \in DOMAIN dst.data[l] THEN dst.data[l][e]
    ELSE <<>>

\* The language and the env list a node counts under: its own, or the
\* inherited ones when its own are null or empty.
EffLang(ar, o) ==
    IF ar[o].att.lang # None THEN ar[o].att.lang
    ELSE parent_att(ar, ar[o].parent, "lang", None)

EffEnvs(ar, o) ==
    IF ar[o].att.env # <<>> THEN ar[o].att.env
    ELSE parent_att(ar, ar[o].parent, "env", <<None>>)

AllLangs == {None, langL1, langL2}

AllEnvs == {None, envA, envB, envC}

\* The step added node o to the d-set: every bucket is what it was, followed
\* by o exactly when o's effective language and env list name the bucket.
Accumulated(o) ==
    \A l \in AllLangs, e \in AllEnvs :
       BucketAt(TheDset(arena'), l, e)
          = BucketAt(TheDset(arena), l, e)
            \o (IF EffLang(arena', o) = l /\ e \in Range(EffEnvs(arena', o))
                THEN <<o>> ELSE <<>>)

\* C23 (as claimed): add accumulates in insertion order: each add appends
\* the node once to each bucket (l, e) with l its effective language and e
\* in its effective env list, and removes or reorders nothing, so that a
\* bucket is the sequence in call order of exactly the nodes that belong
\* to it.
C23_AddAccumulates ==
    [][Len(arena') > Len(arena) => Accumulated(Len(arena'))]_vars

\* ------------------------------------------------------------------------
\* The shape of the tree (SpecCons).

\* The owners of node c in ar: the nodes with an attribute that leads to c.
OwnersOf(ar, c) == {o \in DOMAIN ar : c \in SubNodes(ar[o])}

\* The d-set children in ar that came out of the selector resolver as
\* copies: their element, the one of es at their line, holds a selector
\* that names or defaults to an environment.
CopiesIn(ar, es) ==
    {ix \in DOMAIN ar :
        /\ ix # 1
        /\ {"text", "env"} \subseteq DOMAIN ar[ix].att
        /\ \E o \in OwnersOf(ar, ix) : \E a \in DOMAIN ar[o].att \cap DsetNames :
              ix \in DsetValues(ar[o].att[a])
        /\ res_embsel_norm_text(MakeText(es[ar[ix].line], "text"), <<None>>,
                                <<>>).envs # {}}

\* How often node c occurs in the buckets of the d-sets of its parent.
Occurrences(ar, c) ==
    LET o == ar[c].parent
    IN {<<a, l, e, i>> \in
           UNION {UNION {UNION {{<<a, l, e, i>> : i \in DOMAIN ar[o].att[a].data[l][e]} :
                                  e \in DOMAIN ar[o].att[a].data[l]} :
                           l \in DOMAIN ar[o].att[a].data} :
                    a \in DOMAIN ar[o].att \cap DsetNames} :
           ar[o].att[<<a, l, e, i>>[1]].data[<<a, l, e, i>>[2]][<<a, l, e, i>>[3]][<<a, l, e, i>>[4]] = c}

TreeShaped(ar, copies) ==
    /\ \A c \in DOMAIN ar : OwnersOf(ar, c) \subseteq {ar[c].parent}
    /\ \A c \in copies :
          /\ Len(ar[c].att.env) = 1
          /\ \A d \in copies :
                (d # c /\ ar[d].line = ar[c].line) => ar[d].att.env # ar[c].att.env
          /\ Cardinality(Occurrences(ar, c)) = 1

EnumerationAgrees(ar, dst) ==
    \A l \in Dset_langs(dst) :
       \A r \in Dset_envs(ar, dst, l) :
          /\ r.err = "none"
          /\ r.val # None
          /\ \A e \in Range(r.val) :
                /\ Dset_call(ar, dst, l, e).err = "none"
                /\ Dset_call(ar, dst, l, e).val # <<>>
          /\ \A e \in Declared(ar) \ Range(r.val) :
                Dset_call(ar, dst, l, e) = Ok(<<>>)

ValuePositions(dst, n) ==
    UNION {UNION {{<<l, e, i>> : i \in {j \in DOMAIN dst.data[l][e] :
                                           dst.data[l][e][j] = n}} :
                    e \in DOMAIN dst.data[l]} :
             l \in DOMAIN dst.data}

SameValues(d1, d2) ==
    \A n \in DsetValues(d1) \cup DsetValues(d2) :
       Cardinality(ValuePositions(d1, n)) = Cardinality(ValuePositions(d2, n))

\* d2 is d1 after a rename of olang to nlang that lost nothing.
RenamedLossless(d1, d2, olang, nlang) ==
    /\ SameValues(d1, d2)
    /\ \A l \in (DOMAIN d1.data \cup DOMAIN d2.data) \ {olang, nlang} :
          l \in DOMAIN d1.data /\ l \in DOMAIN d2.data /\ d1.data[l] = d2.data[l]
    /\ olang \notin DOMAIN d1.data => d2 = d1
    /\ olang # nlang => olang \notin DOMAIN d2.data

\* C27 (as claimed): rename_lang loses no content: a step that is
\* rename_lang(olang, nlang) leaves the multiset of nodes returned by
\* values() unchanged, also when nlang already has buckets, leaves the
\* buckets of every other language unchanged, and afterwards olang is not a
\* key of the index unless olang equals nlang; for an absent olang the call
\* changes nothing.
C27_RenameLangLossless ==
    /\ [](pc = At("index") =>
             \A r \in IndexLangRenames :
                r[1] \notin DOMAIN TheDset(arena).data
                   => Dset_rename_lang(TheDset(arena), r[1], r[2]) = TheDset(arena))
    /\ [][\A r \in IndexLangRenames :
             (/\ Len(arena') = Len(arena)
              /\ TheDset(arena') = Dset_rename_lang(TheDset(arena), r[1], r[2]))
                => RenamedLossless(TheDset(arena), TheDset(arena'), r[1], r[2])]_vars

\* The claim for renames whose new key has no buckets yet, or is the old key.
T27_RenameLangFresh ==
    [][\A r \in IndexLangRenames :
          (/\ Len(arena') = Len(arena)
           /\ TheDset(arena') = Dset_rename_lang(TheDset(arena), r[1], r[2])
           /\ (r[2] \notin DOMAIN TheDset(arena).data \/ r[1] = r[2]))
             => RenamedLossless(TheDset(arena), TheDset(arena'), r[1], r[2])]_vars

\* ------------------------------------------------------------------------
\* Closeness lookups and the order of construction (SpecCons).

\* The resolver has found no gloss.environments to look closeness up in.
NoEnvironmentsYet ==
    /\ pc = At("crash")
    /\ out = [kind |-> "exception", name |-> "AttributeError"]

\* C29 (as claimed): closeness lookups never precede the environment
\* collection: whenever the selector resolver needs the closeness relation
\* for a d-set child of the document, the metadata title, desc and version
\* included, gloss.environments exists, so that resolution never fails
\* because of the order of construction.
C29_ClosenessAfterEnvironments == ~NoEnvironmentsYet

\* The claim for the d-set children below <concepts>: when the concepts are
\* built, and from then on, the glossary has its environments.
T29_ConceptsHaveEnvironments ==
    pc.at \in {"concepts", "validate", "constructed", "sieved"}
       => "environments" \in DOMAIN arena[1].att

\* ------------------------------------------------------------------------
\* The sieve sr_latin (dg/sieve/sr_latin.py): Serbian Cyrillic text to
\* Serbian Latin, and the language key sr to sr@latin.

srkey == <<"s", "r">>

srlatkey == <<"s", "r", "@", "l", "a", "t", "i", "n">>

\* Cyrillic letters, one token each: de, small lje, capital lje, capital be.
cyD == "cy_d"

cyLj == "cy_lj"

cyLJ == "cy_LJ"

cyB == "cy_B"

\* _dict_c2l, for the letters above
dict_c2l ==
    (cyD :> <<"d">>) @@ (cyLj :> <<"l", "j">>) @@ (cyLJ :> <<"L", "j">>)
    @@ (cyB :> <<"B">>)

\* unicode.isupper() of one character
IsUpper(c) ==
    c \in {cyLJ, cyB, "A", "B", "C", "D", "E", "F", "G", "H", "I", "J", "K", "L",
           "M", "N", "O", "P", "Q", "R", "S", "T", "U", "V", "W", "X", "Y", "Z"}

\* unicode.upper() of a transliteration
ToUpper(r) == [i \in DOMAIN r |-> IF r[i] = "j" THEN "J" ELSE r[i]]

\* sr_c2l: letter by letter; an upper-case digraph is written in capitals
\* next to another upper-case letter.
RECURSIVE sr_c2l_from(_, _)
sr_c2l_from(text, i) ==
    IF i > Len(text) THEN <<>>
    ELSE LET c == text[i]
             r == IF c \in DOMAIN dict_c2l THEN dict_c2l[c] ELSE <<c>>
             nb == \/ (i + 1 <= Len(text) /\ IsUpper(text[i + 1]))
                   \/ (i > 1 /\ IsUpper(text[i - 1]))
         IN (IF c \in DOMAIN dict_c2l /\ Len(r) > 1 /\ IsUpper(c) /\ nb
             THEN ToUpper(r) ELSE r)
            \o sr_c2l_from(text, i + 1)

sr_c2l(text) == sr_c2l_from(text, 1)

\* getattr(seg, "lang", "sr")
SegLang(seg) == IF "lang" \in DOMAIN seg.att THEN seg.att.lang ELSE srkey

\* Subcommand._conv_text: ntext = type(text)() is a text of the same class
\* built from no element; the segments are appended to it, the strings
\* transliterated, the texts that are Serbian or state no language
\* converted in turn.
RECURSIVE conv_text(_)
RECURSIVE ConvSegs(_)
conv_text(text) == [MakeText(NoneEl, text.tag) EXCEPT !.segs = ConvSegs(text.segs)]

ConvSegs(segs) ==
    IF segs = <<>> THEN <<>>
    ELSE LET seg == Head(segs)
         IN <<IF seg.k = "text"
              THEN IF SegLang(seg) = srkey THEN conv_text(seg) ELSE seg
              ELSE IF seg.k = "str" THEN Str(sr_c2l(seg.s))
              ELSE seg>>
            \o ConvSegs(Tail(segs))

\* dg.query.descendant_nodes: the g-nodes below n.
RECURSIVE descendant_nodes(_, _)
descendant_nodes(ar, n) ==
    SubNodes(ar[n]) \cup UNION {descendant_nodes(ar, c) : c \in SubNodes(ar[n])}

\* `sub in s` and s.replace(old, new) of Python strings
StartsAt(s, sub, i) ==
    i + Len(sub) - 1 <= Len(s) /\ SubSeq(s, i, i + Len(sub) - 1) = sub

Contains(s, sub) == \E i \in 1..Len(s) : StartsAt(s, sub, i)

RECURSIVE ReplaceFrom(_, _, _, _)
ReplaceFrom(s, old, new, i) ==
    IF i > Len(s) THEN <<>>
    ELSE IF StartsAt(s, old, i) THEN new \o ReplaceFrom(s, old, new, i + Len(old))
    ELSE <<s[i]>> \o ReplaceFrom(s, old, new, i + 1)

SrWikipedia == <<"s", "r", ".", "w", "i", "k", "i", "p", "e", "d", "i", "a">>

SrEc == <<"s", "r", "-", "e", "c">>

SrEl == <<"s", "r", "-", "e", "l">>

\* The loop over gnode.rooturl.text: a string naming sr.wikipedia has sr-ec
\* replaced by sr-el.
ConvUrl(seg) ==
    IF seg.k = "str" /\ Contains(seg.s, SrWikipedia)
    THEN Str(ReplaceFrom(seg.s, SrEc, SrEl, 1))
    ELSE seg

\* An extroot on which the loop raises AttributeError: it has no rooturl, or
\* a segment of the url is a text holding the string sr.wikipedia, which has
\* no replace.
UrlFails(ar, x) ==
    \/ "rooturl" \notin DOMAIN ar[x].att
    \/ ar[x].att.rooturl = 0
    \/ \E seg \in Range(ar[ar[x].att.rooturl].att.text.segs) :
          seg.k = "text" /\ Str(SrWikipedia) \in Range(seg.segs)

\* The pass over the nodes: lang sr becomes sr@latin and the text of such a
\* node is converted.
ConvNode(obj) ==
    IF "lang" \in DOMAIN obj.att /\ obj.att.lang = srkey
    THEN LET o1 == [obj EXCEPT !.att.lang = srlatkey]
         IN IF "text" \in DOMAIN obj.att
            THEN [o1 EXCEPT !.att.text = conv_text(@)]
            ELSE o1
    ELSE obj

\* dset.rename_lang(srkey, srlatkey) on the d-sets of one node
RenameDsets(obj) ==
    [obj EXCEPT !.att =
        [a \in DOMAIN obj.att |->
            IF a \in DsetNames THEN Dset_rename_lang(obj.att[a], srkey, srlatkey)
            ELSE obj.att[a]]]

\* Mutation of RenameLanguage: the language node keeps its id.
RenameLanguage_KeepsId(ar) ==
    LET languages == ar[1].att.languages
    IN [ar EXCEPT ![1].att.languages =
              [k \in (DOMAIN languages \ {srkey}) \cup {srlatkey} |->
                  IF k = srlatkey THEN languages[srkey] ELSE languages[k]]]

\* serbian = gloss.languages.pop(srkey); serbian.id = srlatkey;
\* gloss.languages[srlatkey] = serbian
RenameLanguage(ar) ==
    LET languages == ar[1].att.languages
    IN [ar EXCEPT ![languages[srkey]].att.id = srlatkey,
                  ![1].att.languages =
              [k \in (DOMAIN languages \ {srkey}) \cup {srlatkey} |->
                  IF k = srlatkey THEN languages[srkey] ELSE languages[k]]]

\* Mutation of RenameAllDsets: the d-sets keep their language keys.
RenameAllDsets_None(ar, nodes) == ar

\* The loop over descendant_dsets(gloss): the d-sets of the glossary and of
\* the nodes below it.
RenameAllDsets(ar, nodes) ==
    [i \in DOMAIN ar |-> IF i \in nodes THEN RenameDsets(ar[i]) ELSE ar[i]]

\* Subcommand.__call__: the glossary as the sieve leaves it, and the
\* exception it ends with, if any (the glossary is lost with it).
sr_latin_call(ar) ==
    IF srkey \notin DOMAIN ar[1].att.languages THEN [ar |-> ar, err |-> "none"]
    ELSE LET nodes == descendant_nodes(ar, 1)
             ar2 == [i \in DOMAIN ar |->
                        IF i \in nodes THEN ConvNode(ar[i]) ELSE ar[i]]
             ar3 == IF ar2[1].att.lang = srkey
                    THEN [ar2 EXCEPT ![1].att.lang = srlatkey] ELSE ar2
             extroots == {i \in nodes : ar3[i].type = "Extroot"}
         IN IF \E x \in extroots : UrlFails(ar3, x)
            THEN [ar |-> ar3, err |-> "AttributeError"]
            ELSE LET urls == {ar3[x].att.rooturl : x \in extroots}
                     ar4 == [i \in DOMAIN ar3 |->
                                IF i \in urls
                                THEN [ar3[i] EXCEPT !.att.text.segs =
                                         [j \in DOMAIN @ |-> ConvUrl(@[j])]]
                                ELSE ar3[i]]
                     ar5 == RenameLanguage(ar4)
                 IN [ar |-> RenameAllDsets(ar5, {1} \cup descendant_nodes(ar5, 1)),
                     err |-> "none"]

\* ------------------------------------------------------------------------
\* Specification SpecSr: dgproc with the sieve sr_latin on documents that
\* use the languages sr and sr@latin: construction as in SpecCons, then the
\* sieve on the glossary returned.

SrUrl == SrWikipedia \o <<"/">> \o SrEc

\* <keydefs> declaring sr and l1, with an external root at sr.wikipedia
SrKeydefs ==
    El("keydefs", 0, EmptyDict,
       << El("languages", 0, EmptyDict,
             << El("language", 0, [id |-> srkey],
                   <<ElText("name", [lang |-> srkey], <<cyB, cyD>>)>>),
                El("language", 0, [id |-> langL1], <<>>) >>),
          El("environments", 0, EmptyDict,
             << El("environment", 0, [id |-> envA, closeto |-> envB], <<>>),
                El("environment", 0, [id |-> envB], <<>>) >>),
          El("extroots", 0, EmptyDict,
             << El("extroot", 0, [id |-> <<"w">>],
                   <<ElText("rooturl", EmptyDict, SrUrl)>>) >>) >>)

\* <keydefs> declaring sr, sr@latin and l1
SrBothKeydefs ==
    El("keydefs", 0, EmptyDict,
       << El("languages", 0, EmptyDict,
             << El("language", 0, [id |-> srlatkey], <<>>),
                El("language", 0, [id |-> srkey], <<>>),
                El("language", 0, [id |-> langL1], <<>>) >>),
          El("environments", 0, EmptyDict,
             << El("environment", 0, [id |-> envA, closeto |-> envB], <<>>),
                El("environment", 0, [id |-> envB], <<>>) >>) >>)

SrConceptMenu ==
    { \* a Serbian description with a reference, a Serbian term
      El("concept", 0, [id |-> Key("c", "1")],
         << El("desc", 0, [lang |-> srkey],
               << ElStr(<<cyLJ, cyB, " ", cyLJ, cyD>>),
                  El("ref", 0, [c |-> Key("c", "1")], <<ElStr(<<cyD>>)>>) >>),
            ElText("term", [lang |-> srkey], <<cyLj>>) >>),
      \* terms in sr@latin and in sr
      El("concept", 0, [id |-> Key("c", "2")],
         << ElText("term", [lang |-> srlatkey], <<"u">>),
            ElText("term", [lang |-> srkey], <<cyB>>) >>),
      \* a description in l1 quoting Serbian, with a link
      El("concept", 0, [id |-> Key("c", "3")],
         << El("desc", 0, [lang |-> langL1],
               << ElStr(<<"s">>),
                  El("ol", 0, [lang |-> srkey, wl |-> <<"x">>], <<ElStr(<<cyD>>)>>),
                  El("link", 0, [url |-> <<"u">>], <<ElStr(<<"k">>)>>) >>) >>),
      \* a Serbian description with a selector
      El("concept", 0, [id |-> Key("c", "4")],
         << ElText("desc", [lang |-> srkey], TextFooBar) >>),
      \* a description in the language of the glossary with emphasis and
      \* quotations in sr and l1
      El("concept", 0, [id |-> Key("c", "5")],
         << El("desc", 0, EmptyDict,
               << El("em", 0, EmptyDict, <<ElStr(<<cyD>>)>>),
                  El("ol", 0, [lang |-> srkey, wl |-> <<"x">>], <<ElStr(<<cyD>>)>>),
                  El("ol", 0, [lang |-> langL1], <<ElStr(<<"q">>)>>) >>) >>) }

SrRootAttribs == {[id |-> <<"g">>, lang |-> srkey],
                  [id |-> <<"g">>, lang |-> langL1]}

SrDocuments ==
    {Numbered(El("glossary", 0, attrib,
                 <<keydefs, El("concepts", 0, EmptyDict, concepts)>>), 1).el :
        attrib \in SrRootAttribs,
        keydefs \in {SrKeydefs, SrBothKeydefs, StdKeydefs},
        concepts \in SeqsUpTo(SrConceptMenu, MaxConcepts) \ {<<>>}}

InitSr ==
    /\ pc = At("start")
    /\ doc \in SrDocuments
    /\ validate \in BOOLEAN
    /\ arena = <<>>
    /\ warns = <<>>
    /\ out = NoError
    /\ result = NoResult

\* main: the sieve sr_latin is handed the glossary
sr_latin ==
    /\ pc = At("constructed")
    /\ LET r == sr_latin_call(arena)
       IN Land([ar |-> r.ar, warns |-> warns, err |-> r.err], At("sieved"))
    /\ UNCHANGED <<doc, validate, result>>

NextSr ==
    \/ from_file
    \/ Glossary_attributes
    \/ Glossary_metadata
    \/ Glossary_keydefs
    \/ Glossary_concepts
    \/ post_dtd_validate
    \/ sr_latin

SpecSr == InitSr /\ [][NextSr]_vars

\* ------------------------------------------------------------------------
\* Properties of SpecSr.

\* Every node stored in a bucket (l, e) of a d-set of ar has effective
\* language l and e in its effective env list.
IndexConsistent(ar) ==
    \A o \in DOMAIN ar : \A a \in DOMAIN ar[o].att \cap DsetNames :
       \A l \in DOMAIN ar[o].att[a].data : \A e \in DOMAIN ar[o].att[a].data[l] :
          \A n \in Range(ar[o].att[a].data[l][e]) :
             /\ EffLang(ar, n) = l
             /\ e \in Range(EffEnvs(ar, n))

\* C26: d-set index consistency: in every state after construction, after
\* selector expansion and after the Serbian language-key rename pass, every
\* node stored in bucket (l, e) of a d-set has effective language l (its own
\* lang, or the inherited one when its lang is null) and has e in its
\* effective env list.
C26_IndexConsistent == Built => IndexConsistent(arena)

\* After the pass a d-set holds the copies of a Serbian description with a
\* selector under sr@latin, one bucket per environment.
C26_Witness ==
    /\ pc = At("sieved")
    /\ \E o \in DOMAIN arena :
          /\ arena[o].type = "Concept"
          /\ srlatkey \in DOMAIN arena[o].att.desc.data
          /\ {envA, envB} \subseteq DOMAIN arena[o].att.desc.data[srlatkey]
          /\ \A n \in DsetValues(arena[o].att.desc) : arena[n].att.lang = srlatkey

\* Every entry k -> n of the keyed collections of the glossary has n.id = k.
KeyedById(ar) ==
    \A a \in DOMAIN ar[1].att \cap DictNames :
       \A k \in DOMAIN ar[1].att[a] : ar[ar[1].att[a][k]].att.id = k

\* The languages stated by the glossary and the nodes below it that are
\* keys of gloss.languages in ar stay keys in ar2.
LangsStayValid(ar, ar2) ==
    \A n \in {1} \cup descendant_nodes(ar2, 1) :
       ("lang" \in DOMAIN ar[n].att /\ ar[n].att.lang \in DOMAIN ar[1].att.languages)
          => ar2[n].att.lang \in DOMAIN ar2[1].att.languages

\* C28: keyed collections are keyed by id: in every state after
\* construction, and after the Serbian language-key rename pass, every entry
\* k -> n of languages, environments, editors, sources, topics, levels,
\* grammar, extroots and concepts has n.id = k, and every lang attribute of
\* a node that was a key of gloss.languages before the pass is a key of it
\* afterwards.
C28_KeyedById ==
    /\ [](Built => KeyedById(arena))
    /\ [][pc' = At("sieved") => LangsStayValid(arena, arena')]_vars

\* The pass has renamed the language of a glossary written in sr.
C28_Witness ==
    /\ pc = At("sieved")
    /\ doc.attrib.lang = srkey
    /\ arena[1].att.lang = srlatkey
    /\ srlatkey \in DOMAIN arena[1].att.languages
    /\ srkey \notin DOMAIN arena[1].att.languages
    /\ \E n \in DOMAIN arena : arena[n].type = "Desc" /\ arena[n].att.lang = srlatkey

\* Two texts with the same sequence of segment kinds, nested texts alike.
RECURSIVE SameKinds(_, _)
SameKinds(t1, t2) ==
    /\ t1.tag = t2.tag
    /\ Len(t1.segs) = Len(t2.segs)
    /\ \A i \in DOMAIN t1.segs :
          /\ t1.segs[i].k = t2.segs[i].k
          /\ t1.segs[i].k = "text" => SameKinds(t1.segs[i], t2.segs[i])

\* Two texts with the same attributes on their segments: the c of a
\* reference, the lang and wl of a quotation, the url of a link.
RECURSIVE SameAtts(_, _)
SameAtts(t1, t2) ==
    /\ t1.att = t2.att
    /\ \A i \in DOMAIN t1.segs \cap DOMAIN t2.segs :
          (t1.segs[i].k = "text" /\ t2.segs[i].k = "text")
             => SameAtts(t1.segs[i], t2.segs[i])

TextNodes(ar) == {n \in descendant_nodes(ar, 1) : "text" \in DOMAIN ar[n].att}

\* C30 (as claimed): the Serbian transliteration pass preserves text
\* structure and cross-references: after the pass every text has the same
\* sequence of segment kinds, every reference segment its target concept
\* key c, every cross-language segment its lang and wl, and every link its
\* url.
C30_PassPreservesStructure ==
    [][pc' = At("sieved") =>
          \A n \in TextNodes(arena) :
             /\ SameKinds(arena[n].att.text, arena'[n].att.text)
             /\ SameAtts(arena[n].att.text, arena'[n].att.text)]_vars

\* The part of the claim about the segment kinds alone.
T30_PassPreservesKinds ==
    [][pc' = At("sieved") =>
          \A n \in TextNodes(arena) :
             SameKinds(arena[n].att.text, arena'[n].att.text)]_vars

====
